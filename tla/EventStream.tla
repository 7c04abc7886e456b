---------------------------- MODULE EventStream ----------------------------
(***************************************************************************)
(* The live event stream of one run: JobRunner.subscribe, unsubscribe and  *)
(* _publish (web/jobs.py), append_event and read_events (web/storage.py),  *)
(* and the SSE endpoint (web/api/events.py).                               *)
(*                                                                         *)
(* The publisher and every stream run on the one asyncio thread, so a step *)
(* below is what happens between two awaits of a coroutine: a stream gives *)
(* the loop up at every yield and at queue.get.  The events of the run are *)
(* numbered in the order _publish is called with them; the last is done,   *)
(* published in the same step that makes run.json terminal.                *)
(***************************************************************************)
EXTENDS Naturals, Sequences, SequencesExt

CONSTANTS
    NumEvents,   \* the run publishes events 1..NumEvents
    LogCap,      \* _MAX_EVENTS_PER_RUN
    QueueCap,    \* maxsize of a subscriber's queue
    Conns        \* the connections clients open; a reconnect is a new one

ASSUME EventsAssumption ==
    /\ NumEvents \in Nat \ {0}
    /\ LogCap \in Nat \ {0} /\ QueueCap \in Nat \ {0}

Done == NumEvents
Lost == 0        \* a lost_events marker, of the log or of a queue
Events == 0..NumEvents

VARIABLES
    published,     \* how many events _publish has been called with
    alive,         \* the process that runs the analyzers has not died
    log,           \* events.ndjson
    lostEmitted,   \* the run is in JobRunner._lost_emitted
    subs,          \* the connections whose queue is in JobRunner._subscribers
    pc,            \* where the stream of a connection stands
    queue,         \* its queue
    pend,          \* what read_events returned and is not sent yet
    sent,          \* what the stream has sent to the client
    dropped        \* history: the queue was full when an event was published

runLogVars == <<published, alive, log, lostEmitted>>
streamVars == <<published, alive, log, lostEmitted, subs, pc, queue, pend, sent, dropped>>

StreamInit ==
    /\ published = 0 /\ alive = TRUE
    /\ log = <<>>
    /\ lostEmitted = FALSE
    /\ subs = {}
    /\ pc = [c \in Conns |-> "none"]
    /\ queue = [c \in Conns |-> <<>>]
    /\ pend = [c \in Conns |-> <<>>]
    /\ sent = [c \in Conns |-> <<>>]
    /\ dropped = [c \in Conns |-> FALSE]

Terminal == published = NumEvents

----------------------------------------------------------------------------
(* _publish.                                                                *)

\* Mutant: past the cap every event adds a sentinel.
AppendEventAgain(e) == IF Len(log) >= LogCap THEN Append(log, Lost) ELSE Append(log, e)

\* append_event: the line that would exceed the cap is replaced by a sentinel,
\* every later one is dropped.  The cached count is the length of the file.
AppendEvent(e) ==
    CASE Len(log) < LogCap -> Append(log, e)
      [] Len(log) = LogCap -> Append(log, Lost)
      [] OTHER -> log

\* put_nowait of e for every connection of S whose queue has room.
Put(q, S, e) == [c \in Conns |-> IF c \in S /\ Len(q[c]) < QueueCap
                                 THEN Append(q[c], e) ELSE q[c]]

\* Persist the event, fan it out, and when a queue was full for the first time
\* in this run fan out one marker as well.
Publish ==
    /\ alive /\ ~Terminal
    /\ published' = published + 1
    /\ log' = AppendEvent(published + 1)
    /\ LET full == {c \in subs : Len(queue[c]) = QueueCap}
           fanned == Put(queue, subs, published + 1)
           mark == full # {} /\ ~lostEmitted
       IN /\ queue' = IF mark THEN Put(fanned, subs, Lost) ELSE fanned
          /\ lostEmitted' = (lostEmitted \/ mark)
          /\ dropped' = [c \in Conns |-> dropped[c] \/ c \in full]
    /\ UNCHANGED <<alive, subs, pc, pend, sent>>

----------------------------------------------------------------------------
(* stream_events.                                                           *)

\* The request handler: the run exists, so subscribe and return the response.
Connect(c) ==
    /\ pc[c] = "none"
    /\ subs' = subs \cup {c}
    /\ pc' = [pc EXCEPT ![c] = "subscribed"]
    /\ UNCHANGED <<runLogVars, queue, pend, sent, dropped>>

\* The response starts the generator: read the log.
Replay(c) ==
    /\ pc[c] = "subscribed"
    /\ pend' = [pend EXCEPT ![c] = log]
    /\ pc' = [pc EXCEPT ![c] = "replaying"]
    /\ UNCHANGED <<runLogVars, subs, queue, sent, dropped>>

SendReplayed(c) ==
    /\ pc[c] = "replaying" /\ pend[c] # <<>>
    /\ sent' = [sent EXCEPT ![c] = Append(@, Head(pend[c]))]
    /\ pend' = [pend EXCEPT ![c] = Tail(@)]
    /\ UNCHANGED <<runLogVars, subs, pc, queue, dropped>>

\* The generator ends: finally unsubscribes.
Close(c) == /\ pc' = [pc EXCEPT ![c] = "closed"]
            /\ subs' = subs \ {c}

\* The replay is sent and the run is over: send a done of its own and stop.
FinishReplayed(c) ==
    /\ pc[c] = "replaying" /\ pend[c] = <<>>
    /\ Terminal
    /\ sent' = [sent EXCEPT ![c] = Append(@, Done)]
    /\ Close(c)
    /\ UNCHANGED <<runLogVars, queue, pend, dropped>>

\* Mutants: the status is not read again after the replay, or what was queued
\* in the meantime is taken for replayed.
GoLiveAlways(c) ==
    /\ pc[c] = "replaying" /\ pend[c] = <<>>
    /\ pc' = [pc EXCEPT ![c] = "live"]
    /\ UNCHANGED <<runLogVars, subs, queue, pend, sent, dropped>>
GoLiveDrained(c) ==
    /\ pc[c] = "replaying" /\ pend[c] = <<>>
    /\ ~Terminal
    /\ pc' = [pc EXCEPT ![c] = "live"]
    /\ queue' = [queue EXCEPT ![c] = <<>>]
    /\ UNCHANGED <<runLogVars, subs, pend, sent, dropped>>

\* The replay is sent and the run is still going.
GoLive(c) ==
    /\ pc[c] = "replaying" /\ pend[c] = <<>>
    /\ ~Terminal
    /\ pc' = [pc EXCEPT ![c] = "live"]
    /\ UNCHANGED <<runLogVars, subs, queue, pend, sent, dropped>>

\* Forward the next queued event; done ends the stream.
Forward(c) ==
    /\ pc[c] = "live" /\ queue[c] # <<>>
    /\ sent' = [sent EXCEPT ![c] = Append(@, Head(queue[c]))]
    /\ queue' = [queue EXCEPT ![c] = Tail(@)]
    /\ IF Head(queue[c]) = Done THEN Close(c) ELSE UNCHANGED <<pc, subs>>
    /\ UNCHANGED <<runLogVars, pend, dropped>>

\* Nothing for fifteen seconds: a ping, which carries no event.
Heartbeat(c) == pc[c] = "live" /\ queue[c] = <<>> /\ UNCHANGED streamVars

\* The client goes away.  A generator that has not started has no finally to
\* run, and its queue stays registered.
Disconnect(c) ==
    /\ pc[c] \in {"subscribed", "replaying", "live"}
    /\ IF pc[c] = "subscribed"
       THEN pc' = [pc EXCEPT ![c] = "leaked"] /\ UNCHANGED subs
       ELSE Close(c)
    /\ UNCHANGED <<runLogVars, queue, pend, sent, dropped>>

\* The process dies and is started again: the log stays, no one publishes.
RestartRun ==
    /\ alive /\ ~Terminal
    /\ alive' = FALSE
    /\ lostEmitted' = FALSE
    /\ subs' = {}
    /\ pc' = [c \in Conns |-> IF pc[c] = "none" THEN "none" ELSE "closed"]
    /\ UNCHANGED <<published, log, queue, pend, sent, dropped>>

Stream(c) == \/ Replay(c) \/ SendReplayed(c) \/ FinishReplayed(c)
             \/ GoLive(c) \/ Forward(c) \/ Heartbeat(c)

StreamNext == \/ Publish \/ RestartRun
        \/ \E c \in Conns : Connect(c) \/ Stream(c) \/ Disconnect(c)

StreamSpec == StreamInit /\ [][StreamNext]_streamVars

\* The run goes on to its end, and the loop runs a stream whose client reads.
StreamFairness == WF_streamVars(Publish) /\ \A c \in Conns : WF_streamVars(Stream(c))
StreamFairSpec == StreamSpec /\ StreamFairness

----------------------------------------------------------------------------
(* Properties.                                                              *)

\* events.ndjson holds the first events in order and, exactly when some are
\* missing, one marker at the end ("emit a single lost_events sentinel").
LogIsPrefix ==
    LET kept == IF published <= LogCap THEN published ELSE LogCap
    IN log = [i \in 1..kept |-> i] \o (IF published > LogCap THEN <<Lost>> ELSE <<>>)

\* A stream that is still open misses nothing between the replay of the log
\* and the queue, whatever is published between its steps: each event so far
\* has been sent or is on its way, and the sent ones are the first ones.  It
\* may miss some once its queue overflowed or the log it replayed was cut.
StreamComplete ==
    \A c \in Conns :
        LET out == ToSet(sent[c])
        IN pc[c] \in {"replaying", "live"} /\ ~dropped[c] /\ Lost \notin ToSet(sent[c] \o pend[c]) =>
            /\ 1..published \subseteq out \cup ToSet(pend[c]) \cup ToSet(queue[c])
            /\ \E k \in 0..NumEvents : out = 1..k

\* No event is lost in silence, in the log or on the way to a client
\* (append_event, JobRunner.subscribe and the SSE endpoint).
NothingMissed == LogIsPrefix /\ StreamComplete

\* A client that stays connected and reads is told that the run is over, when
\* it connects before, during or after the last events, unless its queue
\* overflowed or the server was restarted.
DoneArrives ==
    \A c \in Conns :
        pc[c] = "subscribed"
            ~> Done \in ToSet(sent[c]) \/ pc[c] \in {"closed", "leaked"} \/ dropped[c] \/ ~alive

=============================================================================
