--------------------------- MODULE Notifications ---------------------------
(***************************************************************************)
(* The notification service (internal/notifications) and the stop of the   *)
(* process (cmd/app/main.go).  A request stores a row, reads the user's    *)
(* device token and offers a job to a bounded channel; a pool of workers   *)
(* takes jobs and pushes them.  When a signal arrives the workers leave    *)
(* while the HTTP server still serves the requests it has; the channel is  *)
(* in memory and its jobs are gone with the process.                       *)
(***************************************************************************)
EXTENDS Integers, Sequences

CONSTANTS
  Messages,  \* what requests notify users of, each once
  Reachable, \* the messages to users with a device token
  Senders,   \* goroutines of requests that notify
  Workers,   \* goroutines of the pool, 3 in the code
  Capacity,  \* of jobChan, 1000 in the code
  NoMsg      \* nothing at hand

ASSUME NotificationsAssumption ==
  /\ Capacity \in Nat \ {0}
  /\ NoMsg \notin Messages
  /\ Reachable \subseteq Messages

VARIABLES
  inbox,   \* rows of table notifications
  sends,   \* the message whose row a sender has stored, until it is queued
  jobChan, \* the channel
  takes,   \* the job a worker has at hand
  left,    \* workers that returned
  pushed,  \* jobs for which SendBatch was called, in order
  phase    \* the process: up, closing after a signal, down

vars == <<inbox, sends, jobChan, takes, left, pushed, phase>>

Init ==
  /\ inbox = {}
  /\ sends = [s \in Senders |-> NoMsg]
  /\ jobChan = << >>
  /\ takes = [w \in Workers |-> NoMsg]
  /\ left = {}
  /\ pushed = << >>
  /\ phase = "up"

-----------------------------------------------------------------------------
(* SendToUser                                                              *)

\* store.Create, by a request that came before the signal: it may go on after it.
SendToUser(s, m) ==
  /\ phase # "down"
  /\ sends[s] = NoMsg
  /\ m \notin inbox
  /\ inbox' = inbox \cup {m}
  /\ sends' = [sends EXCEPT ![s] = m]
  /\ UNCHANGED <<jobChan, takes, left, pushed, phase>>

\* GetDeviceToken finds none.
Skip(s) ==
  /\ phase # "down"
  /\ sends[s] \in Messages \ Reachable
  /\ sends' = [sends EXCEPT ![s] = NoMsg]
  /\ UNCHANGED <<inbox, jobChan, takes, left, pushed, phase>>

\* GetDeviceToken fails.
Fail(s) ==
  /\ phase # "down"
  /\ sends[s] # NoMsg
  /\ sends' = [sends EXCEPT ![s] = NoMsg]
  /\ UNCHANGED <<inbox, jobChan, takes, left, pushed, phase>>

\* Mutant: the send has no default case.
EnqueueBlocking(s) ==
  /\ phase # "down"
  /\ sends[s] \in Reachable
  /\ Len(jobChan) < Capacity
  /\ jobChan' = Append(jobChan, sends[s])
  /\ sends' = [sends EXCEPT ![s] = NoMsg]
  /\ UNCHANGED <<inbox, takes, left, pushed, phase>>

\* select { case jobChan <- job: default: dropped }
Enqueue(s) ==
  /\ phase # "down"
  /\ sends[s] \in Reachable
  /\ jobChan' = IF Len(jobChan) < Capacity THEN Append(jobChan, sends[s]) ELSE jobChan
  /\ sends' = [sends EXCEPT ![s] = NoMsg]
  /\ UNCHANGED <<inbox, takes, left, pushed, phase>>

-----------------------------------------------------------------------------
(* The pool                                                                *)

Busy(w) == takes[w] # NoMsg

\* Mutant: a job stays in the channel until it is pushed.
Peek(w) ==
  /\ phase # "down"
  /\ w \notin left
  /\ ~Busy(w)
  /\ jobChan # << >>
  /\ takes' = [takes EXCEPT ![w] = Head(jobChan)]
  /\ pushed' = Append(pushed, Head(jobChan))
  /\ UNCHANGED <<inbox, sends, jobChan, left, phase>>

\* case job := <-jobChan, and the call of SendBatch.
Take(w) ==
  /\ phase # "down"
  /\ w \notin left
  /\ ~Busy(w)
  /\ jobChan # << >>
  /\ takes' = [takes EXCEPT ![w] = Head(jobChan)]
  /\ pushed' = Append(pushed, Head(jobChan))
  /\ jobChan' = Tail(jobChan)
  /\ UNCHANGED <<inbox, sends, left, phase>>

\* Mutant: a worker whose push fails returns.
ReturnLeaving(w) ==
  /\ phase # "down"
  /\ Busy(w)
  /\ takes' = [takes EXCEPT ![w] = NoMsg]
  /\ left' \in {left, left \cup {w}}
  /\ UNCHANGED <<inbox, sends, jobChan, pushed, phase>>

\* SendBatch returns; an error is logged and the job is not tried again.
Return(w) ==
  /\ phase # "down"
  /\ Busy(w)
  /\ takes' = [takes EXCEPT ![w] = NoMsg]
  /\ UNCHANGED <<inbox, sends, jobChan, left, pushed, phase>>

\* Mutant: the context is looked at only after a job was received.
LeaveWithJob(w) ==
  /\ phase = "closing"
  /\ w \notin left
  /\ ~Busy(w)
  /\ jobChan # << >>
  /\ left' = left \cup {w}
  /\ jobChan' = Tail(jobChan)
  /\ UNCHANGED <<inbox, sends, takes, pushed, phase>>

\* case <-ctx.Done(), whether there are jobs or not.
Leave(w) ==
  /\ phase = "closing"
  /\ w \notin left
  /\ ~Busy(w)
  /\ left' = left \cup {w}
  /\ UNCHANGED <<inbox, sends, jobChan, takes, pushed, phase>>

-----------------------------------------------------------------------------
(* The process                                                             *)

Signal ==
  /\ phase = "up"
  /\ phase' = "closing"
  /\ UNCHANGED <<inbox, sends, jobChan, takes, left, pushed>>

\* Everything in memory is gone.
Ends ==
  /\ phase' = "down"
  /\ jobChan' = << >>
  /\ sends' = [s \in Senders |-> NoMsg]
  /\ takes' = [w \in Workers |-> NoMsg]
  /\ UNCHANGED <<inbox, pushed, left>>

\* srv.Shutdown returned and the wait for the workers is over.
Exit ==
  /\ phase = "closing"
  /\ \A s \in Senders : sends[s] = NoMsg
  /\ left = Workers
  /\ Ends

\* The process is killed, or its requests took longer than five seconds to end.
Killed == phase # "down" /\ Ends

Start ==
  /\ phase = "down"
  /\ phase' = "up"
  /\ left' = {}
  /\ UNCHANGED <<inbox, sends, jobChan, takes, pushed>>

Next ==
  \/ \E s \in Senders : Skip(s) \/ Fail(s) \/ Enqueue(s) \/ \E m \in Messages : SendToUser(s, m)
  \/ \E w \in Workers : Take(w) \/ Return(w) \/ Leave(w)
  \/ Signal \/ Exit \/ Killed \/ Start

Spec == Init /\ [][Next]_vars

\* Requests run on.  Of the pool and the push provider this says nothing.
SendersRun == \A s \in Senders : WF_vars(Skip(s) \/ Enqueue(s))

\* The pool runs and the push provider answers, if with an error.  A select with two
\* ready cases picks one at random; messages are finite, so that Leave has its turn.
PoolRuns == \A w \in Workers : WF_vars(Take(w)) /\ WF_vars(Return(w)) /\ WF_vars(Leave(w))

\* main goes on when its requests and workers have ended.
MainRuns == WF_vars(Exit)

SendersSpec == Spec /\ SendersRun

-----------------------------------------------------------------------------

\* Every variable has its type, and the channel its bound.
TypeOK ==
  /\ inbox \subseteq Messages
  /\ sends \in [Senders -> Messages \cup {NoMsg}]
  /\ jobChan \in Seq(Messages) /\ Len(jobChan) <= Capacity
  /\ takes \in [Workers -> Messages \cup {NoMsg}]
  /\ left \subseteq Workers
  /\ pushed \in Seq(Messages)
  /\ phase \in {"up", "closing", "down"}

\* Where message m is on its way: with a sender, in the channel, or pushed.
Places(m) ==
  ({"send"} \X {s \in Senders : sends[s] = m})
    \cup ({"chan"} \X {i \in DOMAIN jobChan : jobChan[i] = m})
    \cup ({"push"} \X {i \in DOMAIN pushed : pushed[i] = m})

\* Every variable has its type, the channel keeps to its capacity, and nobody is pushed
\* the same message twice, whichever workers race for it and whenever the process stops,
\* and nobody is pushed one that the list of notifications does not have.
PushedOnce ==
  /\ TypeOK
  /\ \A m \in Messages : \A p, q \in Places(m) : p = q /\ m \in inbox

\* However slow the provider and full the channel, even if the pool stands still, a
\* request that notifies is never held up (TestService_FirebaseError_DoesNotAffectFlow).
SendersNeverWait == \A s \in Senders : sends[s] # NoMsg ~> sends[s] = NoMsg

\* If the pool runs, a queued job is pushed unless the process stops first: no error of
\* the provider makes the pool leave it behind (worker, service.go:68).
QueuePushed == PoolRuns =>
  \A m \in Messages :
    (\E i \in DOMAIN jobChan : jobChan[i] = m)
      ~> (\E i \in DOMAIN pushed : pushed[i] = m) \/ phase # "up"

\* If the pool and main run, a signal ends the process: no worker and no request keeps
\* main waiting (Start, service.go:59, and main.go:229).
SignalEnds == PoolRuns /\ MainRuns => (phase = "closing" ~> phase = "down")
=============================================================================
