---------------------------- MODULE MailboxRecv ----------------------------
(***************************************************************************)
(* The receiving side of a mailbox (mailbox.rs: TasksMailboxReceiver::recv *)
(* and ThreadsMailboxReceiver::recv): four channels, polled in priority    *)
(* order while items keep arriving in all of them.                         *)
(*                                                                         *)
(* Channels 1 to 4 are signal, stop, supervision and user.  The actor's    *)
(* own Context holds a sender of each, so none is ever disconnected while  *)
(* recv() runs and the closed flags stay false.                            *)
(***************************************************************************)
EXTENDS Integers

CONSTANT
    MaxQueued   \* bound: items waiting in one channel

Channels == 1..4
Stop == 2
User == 4

ASSUME QueuedAssumption == MaxQueued \in Nat \ {0}

VARIABLES
    receiver,   \* the receiver: "Tasks" or "Threads"
    queue,      \* items waiting in each channel
    step,       \* "idle", "poll", "select", "got", "exit"
    at,         \* the channel to poll next
    got,        \* the channel the last item came from
    over        \* over[c]: items of lower priority taken while c had one waiting

recvVars == <<receiver, queue, step, at, got, over>>

RecvInit ==
    /\ receiver \in {"Tasks", "Threads"}
    /\ queue = [c \in Channels |-> 0]
    /\ step = "idle"
    /\ at = 1
    /\ got = User
    /\ over = [c \in Channels |-> 0]

\* Somebody sends: an OS signal, the stop item, an exit signal or a message.
SendTo(c) ==
    /\ queue[c] < MaxQueued
    /\ queue' = [queue EXCEPT ![c] = @ + 1]
    /\ UNCHANGED <<receiver, step, at, got, over>>

Take(c) ==
    /\ queue[c] > 0
    /\ queue' = [queue EXCEPT ![c] = @ - 1]
    /\ got' = c
    /\ step' = "got"
    /\ over' = [d \in Channels |-> IF d = c \/ queue[d] = 0 THEN 0
                                   ELSE IF d < c THEN over[d] + 1 ELSE over[d]]

RecvCall ==
    /\ step = "idle"
    /\ step' = "poll"
    /\ at' = 1
    /\ UNCHANGED <<receiver, queue, got, over>>

\* Mutant: the channels are polled from the last to the first.
PollBackwards ==
    /\ step = "poll"
    /\ UNCHANGED receiver
    /\ IF queue[5 - at] > 0
         THEN Take(5 - at) /\ UNCHANGED at
         ELSE /\ at' = IF at = 4 THEN 1 ELSE at + 1
              /\ step' = IF at = 4 THEN "select" ELSE "poll"
              /\ UNCHANGED <<queue, got, over>>

\* One try_recv; after the fourth fails, select!.
Poll ==
    /\ step = "poll"
    /\ UNCHANGED receiver
    /\ IF queue[at] > 0
         THEN Take(at) /\ UNCHANGED at
         ELSE /\ at' = IF at = 4 THEN 1 ELSE at + 1
              /\ step' = IF at = 4 THEN "select" ELSE "poll"
              /\ UNCHANGED <<queue, got, over>>

\* The biased select! of the tasks runtime wakes when some channel has an item
\* and polls them in order again.
SelectTasks ==
    /\ step = "select"
    /\ receiver = "Tasks"
    /\ \E c \in Channels : queue[c] > 0
    /\ step' = "poll"
    /\ UNCHANGED <<receiver, queue, at, got, over>>

\* The select! of the threads runtime takes any channel that is ready.
SelectThreads ==
    /\ step = "select"
    /\ receiver = "Threads"
    /\ \E c \in Channels : Take(c)
    /\ UNCHANGED <<receiver, at>>

\* Mutant: the stop item is handled and the loop goes on.
HandleStopIgnored ==
    /\ step = "got"
    /\ step' = IF got < Stop THEN "exit" ELSE "idle"
    /\ UNCHANGED <<receiver, queue, at, got, over>>

\* run_actor handles the item: a signal or the stop item ends the loop.
Handle ==
    /\ step = "got"
    /\ step' = IF got <= Stop THEN "exit" ELSE "idle"
    /\ UNCHANGED <<receiver, queue, at, got, over>>

RecvStep == RecvCall \/ Poll \/ SelectTasks \/ SelectThreads \/ Handle

RecvNext == RecvStep \/ \E c \in Channels : SendTo(c)

RecvSpec == RecvInit /\ [][RecvNext]_recvVars

\* The actor's task runs.
RecvFairSpec == RecvSpec /\ WF_recvVars(RecvStep)

-----------------------------------------------------------------------------
\* Every variable has its type.
RecvTypeOK ==
    /\ receiver \in {"Tasks", "Threads"}
    /\ queue \in [Channels -> 0..MaxQueued]
    /\ step \in {"idle", "poll", "select", "got", "exit"}
    /\ at \in Channels
    /\ got \in Channels
    /\ over \in [Channels -> Nat]

\* Priority dequeue, under any traffic: while an item waits, recv() takes at
\* most one item from the channels behind it, the one it was polling for when
\* the item came.
OvertakenOnce == \A c \in Channels : over[c] <= 1

\* A backlog of messages that never ends does not starve the stop item.
StopTaken == queue[Stop] > 0 ~> step = "exit"
=============================================================================
