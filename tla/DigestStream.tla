---------------------------- MODULE DigestStream ----------------------------
(***************************************************************************)
(* The way of a digest: from a switch over the stream of the proxy's       *)
(* connection to it (high_level_switch_connection_async.py), through       *)
(* proxy_digest_forwarding into the one queue of every servicer that       *)
(* subscribed, from there through one of the servicer's StreamChannels to  *)
(* a controller, where the worker thread of the controller's own           *)
(* connection (high_level_switch_connection.py) puts it into the queue     *)
(* that the controller reads.                                              *)
(*                                                                         *)
(* Servicers share targets, as they do when programs are aggregated; a     *)
(* digest belongs to the servicer whose prefix its name starts with.       *)
(* MaxDigests bounds what the switches send.                               *)
(***************************************************************************)
EXTENDS Integers, Sequences, SequencesExt

CONSTANTS
  Targets, Servicers, Controllers,
  ServicerOf,   \* whose proxy a controller connects to
  MaxDigests

VARIABLES
  conn,     \* of each target: "new", "arbitrating", "forwarding"
  stream,   \* stream_msg_resp of the connection: messages to be forwarded
  subs,     \* stream_subscribed_queues: the servicers, in order
  members,  \* _target_switches of each servicer
  queue,    \* stream_queue_from_target: [from, msg]
  chan,     \* of each controller: "closed", "open", "dead"
  inbox,    \* what its StreamChannel has yielded and it has not read
  worker,   \* controllers that subscribed, so that a worker thread reads
  got,      \* the queue the controller reads
  sent      \* number of digests sent so far

vars == <<conn, stream, subs, members, queue, chan, inbox, worker, got, sent>>
connVars == <<conn, stream>>
servicerVars == <<subs, members, queue>>
controllerVars == <<chan, inbox, worker, got>>

Arbitration == [kind |-> "arbitration"]

\* SwitchConnection.MasterArbitrationUpdate: the request, ...
MasterArbitrationUpdate(t) ==
  /\ conn[t] = "new"
  /\ conn' = [conn EXCEPT ![t] = "arbitrating"]
  /\ stream' = [stream EXCEPT ![t] = Append(@, Arbitration)]
  /\ UNCHANGED <<servicerVars, controllerVars, sent>>

\* ... and init, which takes the one answer it waits for, sees to the pipeline
\* and starts the forwarding task.
InitConnection(t) ==
  /\ conn[t] = "arbitrating" /\ stream[t] # <<>>
  /\ conn' = [conn EXCEPT ![t] = "forwarding"]
  /\ stream' = [stream EXCEPT ![t] = Tail(@)]
  /\ UNCHANGED <<servicerVars, controllerVars, sent>>

\* Environment: the switch sends a digest to its primary client, or tells it
\* that another client has become primary.
SwitchSends(t) ==
  /\ conn[t] = "forwarding" /\ sent < MaxDigests
  /\ sent' = sent + 1
  /\ \E m \in {Arbitration} \cup
              [kind : {"digest"}, n : {sent'}, of : Servicers, to : {ToSet(subs[t])}, by : {t}] :
        stream' = [stream EXCEPT ![t] = Append(@, m)]
  /\ UNCHANGED <<conn, servicerVars, controllerVars>>

\* _add_target_switch of a connection that has been initialised.
AddTargetSwitch(s, t) ==
  /\ conn[t] = "forwarding" /\ t \notin members[s] /\ s \notin ToSet(subs[t])
  /\ subs' = [subs EXCEPT ![t] = Append(@, s)]
  /\ members' = [members EXCEPT ![s] = @ \cup {t}]
  /\ UNCHANGED <<connVars, queue, controllerVars, sent>>

\* remove_target_switch; unsubscribe_from_stream_with_queue does nothing.
RemoveTargetSwitch(s, t) ==
  /\ t \in members[s]
  /\ members' = [members EXCEPT ![s] = @ \ {t}]
  /\ UNCHANGED <<connVars, subs, queue, controllerVars, sent>>

\* Bug: a message goes to the first subscriber only.
ForwardFirst(t) ==
  /\ conn[t] = "forwarding" /\ stream[t] # <<>>
  /\ stream' = [stream EXCEPT ![t] = Tail(@)]
  /\ queue' = [s \in Servicers |->
       IF subs[t] # <<>> /\ s = subs[t][1]
       THEN Append(queue[s], [from |-> t, msg |-> Head(stream[t])]) ELSE queue[s]]
  /\ UNCHANGED <<conn, subs, members, controllerVars, sent>>

\* proxy_digest_forwarding: a copy for every queue that is subscribed.
Forward(t) ==
  /\ conn[t] = "forwarding" /\ stream[t] # <<>>
  /\ stream' = [stream EXCEPT ![t] = Tail(@)]
  /\ queue' = [s \in Servicers |->
       IF s \in ToSet(subs[t]) THEN Append(queue[s], [from |-> t, msg |-> Head(stream[t])]) ELSE queue[s]]
  /\ UNCHANGED <<conn, subs, members, controllerVars, sent>>

\* A controller opens its StreamChannel; the servicer answers the arbitration
\* request itself.
OpenStream(c) ==
  /\ chan[c] = "closed"
  /\ chan' = [chan EXCEPT ![c] = "open"]
  /\ UNCHANGED <<connVars, servicerVars, inbox, worker, got, sent>>

IsMine(s, m) == m.kind = "digest" /\ m.of = s

\* Bug: a message is looked at, not taken.
StreamChannelPeek(c) ==
  LET s == ServicerOf[c]  item == Head(queue[s]) IN
  /\ chan[c] = "open" /\ queue[s] # <<>>
  /\ UNCHANGED queue
  /\ IF item.from \notin members[s] \/ item.msg.kind # "digest"
     THEN chan' = [chan EXCEPT ![c] = "dead"] /\ UNCHANGED inbox
     ELSE inbox' = [inbox EXCEPT ![c] = IF IsMine(s, item.msg) THEN Append(@, item.msg) ELSE @]
          /\ UNCHANGED chan
  /\ UNCHANGED <<connVars, subs, members, worker, got, sent>>

\* One turn of StreamChannel: the oldest message of the servicer's queue is
\* taken.  A KeyError for a target that is no member any more, and a message
\* that is no digest, end the channel; a digest of another prefix is dropped.
StreamChannel(c) ==
  LET s == ServicerOf[c]  item == Head(queue[s]) IN
  /\ chan[c] = "open" /\ queue[s] # <<>>
  /\ queue' = [queue EXCEPT ![s] = Tail(@)]
  /\ IF item.from \notin members[s] \/ item.msg.kind # "digest"
     THEN chan' = [chan EXCEPT ![c] = "dead"] /\ UNCHANGED inbox
     ELSE inbox' = [inbox EXCEPT ![c] = IF IsMine(s, item.msg) THEN Append(@, item.msg) ELSE @]
          /\ UNCHANGED chan
  /\ UNCHANGED <<connVars, subs, members, worker, got, sent>>

\* subscribe_to_stream_with_queue of the controller's own connection: the first
\* subscription starts the worker thread.
Subscribe(c) ==
  /\ chan[c] \in {"open", "dead"} /\ c \notin worker
  /\ worker' = worker \cup {c}
  /\ UNCHANGED <<connVars, servicerVars, chan, inbox, got, sent>>

\* StreamHandlerWorkerThread.run
WorkerThread(c) ==
  /\ c \in worker /\ inbox[c] # <<>>
  /\ got' = [got EXCEPT ![c] = Append(@, Head(inbox[c]))]
  /\ inbox' = [inbox EXCEPT ![c] = Tail(@)]
  /\ UNCHANGED <<connVars, servicerVars, chan, worker, sent>>

Init ==
  /\ conn = [t \in Targets |-> "new"]
  /\ stream = [t \in Targets |-> <<>>] /\ subs = [t \in Targets |-> <<>>]
  /\ members = [s \in Servicers |-> {}] /\ queue = [s \in Servicers |-> <<>>]
  /\ chan = [c \in Controllers |-> "closed"] /\ inbox = [c \in Controllers |-> <<>>]
  /\ worker = {} /\ got = [c \in Controllers |-> <<>>] /\ sent = 0

Next ==
  \/ \E t \in Targets :
        \/ MasterArbitrationUpdate(t) \/ InitConnection(t)
        \/ SwitchSends(t) \/ Forward(t)
        \/ \E s \in Servicers : AddTargetSwitch(s, t) \/ RemoveTargetSwitch(s, t)
  \/ \E c \in Controllers :
        OpenStream(c) \/ StreamChannel(c) \/ Subscribe(c) \/ WorkerThread(c)

Spec == Init /\ [][Next]_vars

\* The event loop runs every task that is ready, the worker thread runs; a
\* StreamChannel among several is not favoured.
Fairness ==
  /\ \A t \in Targets : WF_vars(Forward(t))
  /\ \A c \in Controllers :
       WF_vars(StreamChannel(c)) /\ WF_vars(WorkerThread(c))

FairSpec == Spec /\ Fairness

Messages(items) == [i \in DOMAIN items |-> items[i].msg]
Of(s) == {c \in Controllers : ServicerOf[c] = s}

\* What a controller has been sent, read or not yet.
Seen(c) == got[c] \o inbox[c]

\* The places in which the digest n is, on its way to a controller of s.
At(seq, n) == {i \in DOMAIN seq : seq[i].kind = "digest" /\ seq[i].n = n}
Places(s, n) ==
  {<<"queue", s, i>> : i \in At(Messages(queue[s]), n)}
    \cup (UNION {{<<"stream", t, i>> : i \in At(stream[t], n)} : t \in Targets})
    \cup (UNION {{<<"seen", c, i>> : i \in At(Seen(c), n)} : c \in Of(s)})

\* However many servicers share a target and however many channels a servicer
\* has open, a digest is nowhere twice on its way to the controllers of one.
AtMostOnce ==
  \A s \in Servicers, n \in 1..sent : \A p, q \in Places(s, n) : p = q

\* A controller sees digests of its own prefix only, and those of one switch in
\* the order in which the switch sent them.
InOrder ==
  \A c \in Controllers :
    /\ \A i \in DOMAIN Seen(c) : Seen(c)[i].of = ServicerOf[c]
    /\ \A i, j \in DOMAIN Seen(c) :
         i < j /\ Seen(c)[i].by = Seen(c)[j].by => Seen(c)[i].n < Seen(c)[j].n

\* Coming and going targets never subscribe a servicer twice.
SubscribedOnce == \A t \in Targets : IsInjective(subs[t])

\* Every digest comes once, to the right servicer and in order, however targets
\* come and go and channels share the queue.
OnceInOrder == SubscribedOnce /\ AtMostOnce /\ InOrder

\* The digest n that a subscribed servicer is meant to get, somewhere on its way.
OnItsWay(s, n) ==
  \/ \E t \in Targets : \E i \in DOMAIN stream[t] :
        stream[t][i].kind = "digest" /\ stream[t][i].n = n /\ stream[t][i].of = s /\ s \in stream[t][i].to
  \/ \E i \in DOMAIN queue[s] :
        queue[s][i].msg.kind = "digest" /\ queue[s][i].msg.n = n /\ queue[s][i].msg.of = s

Arrived(s, n) == \E c \in Of(s) : \E i \in DOMAIN got[c] : got[c][i].n = n

\* No channel of s may take a digest: none is open, one has died, or one is
\* open whose controller does not listen.
Unheard(s) ==
  \/ {c \in Of(s) : chan[c] = "open"} = {}
  \/ \E c \in Of(s) : chan[c] = "dead" \/ (chan[c] = "open" /\ c \notin worker)

\* A digest of a subscribed servicer reaches a controller of it, as long as no
\* channel of the servicer has died and every controller that has a stream
\* open, and so may take the digest, subscribes to its own connection.
Delivered ==
  \A s \in Servicers, n \in 1..MaxDigests :
    OnItsWay(s, n) ~> (Arrived(s, n) \/ Unheard(s))
=============================================================================
