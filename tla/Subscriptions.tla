--------------------------- MODULE Subscriptions ---------------------------
(***************************************************************************)
(* What a socket subscribes to through EventsGateway: the statistics of a  *)
(* container (DockerService.subscribeToStats, one shared stream for each   *)
(* container) and the log lines of a process (PM2Service.subscribeToLogs). *)
(* One action is the code of a handler between two awaits.                 *)
(*                                                                         *)
(* A subscription is numbered when its callback is made, and the stream it *)
(* opens has its number.  A missing set of callbacks and an empty one are  *)
(* told apart only for logs, where emitLog does.  Docker and the sockets   *)
(* are external: opening a stream may fail, and a stream ends with its     *)
(* container.  Rooms, which socket.io empties itself, are left out.        *)
(***************************************************************************)
EXTENDS Naturals, FiniteSets

CONSTANTS
    Clients,    \* sockets; a client that connects again has a new one
    Containers, \* topics docker:logs:<id>
    Processes,  \* topics pm2:logs:<name>
    All,        \* the process name "*"
    MaxSubs     \* bound: subscriptions ever made

Topics == Containers \cup Processes
Subs == 1..MaxSubs

ASSUME SubscriptionAssumption ==
    /\ Containers \cap Processes = {}
    /\ All \in Processes
    /\ MaxSubs \in Nat

VARIABLES
    connected,  \* the sockets that are connected
    sub,        \* the subscriptions made, in order
    cbs,        \* statsSubscribers, logSubscribers: callbacks per topic
    named,      \* processes with an entry in logSubscribers
    stream,     \* statsStreams: the stream of a container, 0 for none
    live,       \* streams that docker sends
    unsub,      \* the gateway's unsubscribers, by client and topic; 0: none
    asked,      \* history: what a client asked for last
    slipped,    \* history: callbacks no unsubscriber was kept for in time
    overlapped  \* history: containers with two streams being opened at once

subVars == <<connected, sub, cbs, named, stream, live, unsub, asked, slipped, overlapped>>
kept == <<connected, named, asked>>

Sub == [client: Clients, topic: Topics, pc: {"opening", "open", "failed"}]
made == DOMAIN sub

SubTypeOK ==
    /\ connected \subseteq Clients
    /\ \E n \in 0..MaxSubs : sub \in [1..n -> Sub]
    /\ cbs \in [Topics -> SUBSET made]
    /\ \A t \in Topics : \A n \in cbs[t] : sub[n].topic = t
    /\ named \subseteq Processes
    /\ stream \in [Containers -> {0} \cup made]
    /\ live \subseteq {n \in made : sub[n].topic \in Containers /\ sub[n].pc = "open"}
    /\ unsub \in [Clients \X Topics -> {0} \cup made]
    /\ \A ct \in Clients \X Topics :
          unsub[ct] # 0 => <<sub[unsub[ct]].client, sub[unsub[ct]].topic>> = ct
    /\ asked \in [Clients \X Topics -> BOOLEAN]
    /\ slipped \subseteq made
    /\ overlapped \subseteq Containers

SubInit ==
    /\ connected = Clients
    /\ sub = <<>>
    /\ cbs = [t \in Topics |-> {}]
    /\ named = {}
    /\ stream = [t \in Containers |-> 0]
    /\ live = {}
    /\ unsub = [ct \in Clients \X Topics |-> 0]
    /\ asked = [ct \in Clients \X Topics |-> FALSE]
    /\ slipped = {}
    /\ overlapped = {}

-----------------------------------------------------------------------------
Key(n) == <<sub[n].client, sub[n].topic>>
Opening(t) == {n \in made : sub[n].topic = t /\ sub[n].pc = "opening"}
OpeningFor(c, t) == {n \in Opening(t) : sub[n].client = c}

Make(c, t, pc) ==
    /\ c \in connected
    /\ Cardinality(made) < MaxSubs
    /\ LET n == Cardinality(made) + 1
       IN /\ sub' = [i \in 1..n |-> IF i = n THEN [client |-> c, topic |-> t, pc |-> pc]
                                    ELSE sub[i]]
          /\ cbs' = [cbs EXCEPT ![t] = @ \cup {n}]
    /\ asked' = [asked EXCEPT ![<<c, t>>] = TRUE]

\* The Map entry of a client and topic is overwritten, with the unsubscriber
\* of an earlier subscription in it.
Keep(ct, n) ==
    /\ unsub' = [unsub EXCEPT ![ct] = n]
    /\ slipped' = slipped \cup ({unsub[ct]} \ {0})

\* A log subscription is made and kept at once.
SubscribeLogs(c, p) ==
    /\ Make(c, p, "open")
    /\ named' = named \cup {p}
    /\ Keep(<<c, p>>, Cardinality(made) + 1)
    /\ UNCHANGED <<connected, stream, live, overlapped>>

\* The container has a stream: the await has nothing to wait for.
JoinStream(c, t) ==
    /\ stream[t] # 0
    /\ Make(c, t, "open")
    /\ Keep(<<c, t>>, Cardinality(made) + 1)
    /\ UNCHANGED <<connected, named, stream, live, overlapped>>

\* Mutant: the map gets its entry before docker is asked.
AskForStreamEntersFirst(c, t) ==
    /\ stream[t] = 0
    /\ Make(c, t, "opening")
    /\ stream' = [stream EXCEPT ![t] = Cardinality(made) + 1]
    /\ live' = live \cup {Cardinality(made) + 1}
    /\ UNCHANGED <<connected, named, unsub, slipped, overlapped>>

\* The container has none: the callback is entered, then docker is asked.
AskForStream(c, t) ==
    /\ stream[t] = 0
    /\ Make(c, t, "opening")
    /\ overlapped' = overlapped \cup (IF Opening(t) = {} THEN {} ELSE {t})
    /\ UNCHANGED <<connected, named, stream, live, unsub, slipped>>

\* The stream arrives; the map takes it whatever it holds by now, and then the
\* gateway keeps the unsubscriber.
Opened(n) ==
    /\ sub[n].pc = "opening"
    /\ sub' = [sub EXCEPT ![n].pc = "open"]
    /\ live' = live \cup {n}
    /\ stream' = [stream EXCEPT ![sub[n].topic] = n]
    /\ Keep(Key(n), n)
    /\ UNCHANGED <<kept, cbs, overlapped>>

\* No such container: the handler throws and the callback stays entered.
OpenFails(n) ==
    /\ sub[n].pc = "opening"
    /\ sub' = [sub EXCEPT ![n].pc = "failed"]
    /\ slipped' = slipped \cup {n}
    /\ UNCHANGED <<kept, cbs, stream, live, unsub, overlapped>>

\* Without callback u the container has none left.
LastOut(t, u) == u # 0 /\ t \in Containers /\ cbs[t] \ {u} = {}

\* Mutant: the last one out does not close the stream.
UnsubscribeNeverCloses(c, t) ==
    /\ c \in connected
    /\ cbs' = [cbs EXCEPT ![t] = @ \ {unsub[<<c, t>>]}]
    /\ unsub' = [unsub EXCEPT ![<<c, t>>] = 0]
    /\ asked' = [asked EXCEPT ![<<c, t>>] = FALSE]
    /\ slipped' = slipped \cup OpeningFor(c, t)
    /\ UNCHANGED <<connected, sub, named, stream, live, overlapped>>

\* Mutant: the unsubscriber is forgotten without being called.
UnsubscribeOnlyForgets(c, t) ==
    /\ c \in connected
    /\ unsub' = [unsub EXCEPT ![<<c, t>>] = 0]
    /\ asked' = [asked EXCEPT ![<<c, t>>] = FALSE]
    /\ slipped' = slipped \cup OpeningFor(c, t)
    /\ UNCHANGED <<connected, sub, cbs, named, stream, live, overlapped>>

\* The unsubscriber kept for the topic, if there is one: the callback goes,
\* and with the last callback of a container its stream.
Unsubscribe(c, t) ==
    /\ c \in connected
    /\ LET u == unsub[<<c, t>>]
       IN /\ cbs' = [cbs EXCEPT ![t] = @ \ {u}]
          /\ stream' = IF LastOut(t, u) THEN [stream EXCEPT ![t] = 0] ELSE stream
          /\ live' = IF LastOut(t, u) THEN live \ {stream[t]} ELSE live
          /\ unsub' = [unsub EXCEPT ![<<c, t>>] = 0]
    /\ asked' = [asked EXCEPT ![<<c, t>>] = FALSE]
    /\ slipped' = slipped \cup OpeningFor(c, t)
    /\ UNCHANGED <<connected, sub, named, overlapped>>

\* Mutant: only the entry of the stream is deleted.
StreamEndsForgets(n) ==
    /\ n \in live
    /\ live' = live \ {n}
    /\ stream' = [stream EXCEPT ![sub[n].topic] = 0]
    /\ UNCHANGED <<kept, sub, cbs, unsub, slipped, overlapped>>

\* 'end' deletes what the maps hold for the container, whichever stream ended.
StreamEnds(n) ==
    /\ n \in live
    /\ live' = live \ {n}
    /\ stream' = [stream EXCEPT ![sub[n].topic] = 0]
    /\ cbs' = [cbs EXCEPT ![sub[n].topic] = {}]
    /\ UNCHANGED <<kept, sub, unsub, slipped, overlapped>>

\* handleDisconnect looks for an entry with the client id alone, which no
\* subscription makes.
Disconnect(c) ==
    /\ c \in connected
    /\ connected' = connected \ {c}
    /\ UNCHANGED <<sub, cbs, named, stream, live, unsub, asked, slipped, overlapped>>

\* The callbacks emitLog calls for a line of process p.
Hearers(p) == IF p \in named THEN cbs[p] ELSE cbs[All]

-----------------------------------------------------------------------------
SubNext ==
    \/ \E c \in Clients, p \in Processes : SubscribeLogs(c, p)
    \/ \E c \in Clients, t \in Containers : JoinStream(c, t)
    \/ \E c \in Clients, t \in Containers : AskForStream(c, t)
    \/ \E n \in made : Opened(n)
    \/ \E n \in made : OpenFails(n)
    \/ \E c \in Clients, t \in Topics : Unsubscribe(c, t)
    \/ \E n \in live : StreamEnds(n)
    \/ \E c \in Clients : Disconnect(c)

SubSpec == SubInit /\ [][SubNext]_subVars

-----------------------------------------------------------------------------
(* Properties.                                                             *)

\* A container has one stream, which the map holds, so each sample reaches a
\* callback once: a second one needs two subscriptions that open at once
\* (subscribeToStats looks at the map before its await).
OneStream ==
    \A n \in live :
        \/ stream[sub[n].topic] = n
        \/ sub[n].topic \in overlapped

\* Whoever is entered and has been answered is fed: its container has a stream
\* that docker sends and the map holds, although streams overlap, end out of
\* order and are closed by the last one to leave.
SubscriberIsFed ==
    \A t \in Containers : \A n \in cbs[t] :
        sub[n].pc = "open" => stream[t] \in live /\ sub[stream[t]].topic = t

\* The last one out closes the stream: one that runs is read by a callback
\* that its client can take back, or by one whose unsubscriber was lost (the
\* open failed, or the client subscribed twice).
StreamHasReader ==
    \A n \in live : sub[n].topic \notin overlapped =>
        \E m \in cbs[sub[n].topic] :
            sub[m].pc = "opening" \/ unsub[Key(m)] = m \/ m \in slipped

\* A client that asked for nothing more of a topic hears no more of it, unless
\* it subscribed twice, the open failed, or it asked while the stream opened.
SilentAfterUnsubscribe ==
    \A c \in Clients, t \in Topics : ~asked[<<c, t>>] =>
        \A n \in cbs[t] : sub[n].client = c => n \in slipped

\* A stream runs for somebody: what the look-up in handleDisconnect is for.
StreamOfTheGoneCloses ==
    \A n \in live : \E m \in cbs[sub[n].topic] : sub[m].client \in connected

\* Who subscribed to every process hears a line of any process.
AllHearEveryLine == \A p \in Processes : cbs[All] \subseteq Hearers(p)

\* A stream in the map is one that docker sends, for its container.
MapInv ==
    \A t \in Containers : stream[t] # 0 =>
        stream[t] \in live /\ sub[stream[t]].topic = t

\* A callback that is entered belongs to a subscription that opens, or can be
\* taken back, or slipped.
HeldInv ==
    \A t \in Topics : \A n \in cbs[t] :
        sub[n].pc = "opening" \/ unsub[Key(n)] = n \/ n \in slipped

\* Where no two streams were opened at once, the one that opens is alone.
AloneInv ==
    \A t \in Containers : t \notin overlapped =>
        /\ \A n \in Opening(t) : n \in cbs[t] /\ stream[t] = 0
        /\ \A n, m \in Opening(t) : n = m
        /\ \A n \in live : sub[n].topic = t => stream[t] = n /\ cbs[t] # {}

\* Only streams of containers take time to open, and only what is open has an
\* unsubscriber.
PlaceInv ==
    /\ \A n \in made : sub[n].pc = "opening" => sub[n].topic \in Containers
    /\ \A ct \in Clients \X Topics : unsub[ct] # 0 => sub[unsub[ct]].pc = "open"

SubInv ==
    /\ SubTypeOK
    /\ MapInv
    /\ HeldInv
    /\ AloneInv
    /\ PlaceInv
    /\ SubscriberIsFed
    /\ SilentAfterUnsubscribe

=============================================================================
