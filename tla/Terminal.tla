------------------------------ MODULE Terminal ------------------------------
(***************************************************************************)
(* Interactive terminals: TerminalGateway, SshService.ptySession and their *)
(* two clients in the browser, TerminalClient and AppTerminalModal, which  *)
(* follow the same protocol.  A client opens one socket, asks for one      *)
(* session on every connect, and closes both when it is unmounted.  So a   *)
(* socket and its session share a number, and a number is used once.       *)
(*                                                                         *)
(* Input, resizing and the log of commands only pass data through a        *)
(* session that CanType describes.  The gateway's maps are sets of keys.   *)
(***************************************************************************)
EXTENDS Naturals, Sequences

CONSTANTS
    Tabs,       \* mounted terminals in browsers
    MaxSockets  \* bound: connections made in all

ASSUME TerminalAssumption == MaxSockets \in Nat \ {0}

Sockets == 1..MaxSockets
NoSocket == 0

VARIABLES
    tab,       \* the React component
    conn,      \* a socket: "left" until the server notices, then "gone"
    inbox,     \* messages on their way to the client of a socket
    pty,       \* the SSH shell or docker child of a session
    sessions,  \* keys of the gateway's sessions
    children,  \* keys of shellChildren
    owned,     \* sessions in the set of their own socket in sessionOwners
    late       \* history: ptys that opened after handleDisconnect

vars == <<tab, conn, inbox, pty, sessions, children, owned, late>>
server == <<pty, sessions, children, owned, late>>

\* A container is refused for its id or its command.
Targets == {"shell", "unsafe path", "docker", "refused container"}

\* sock: the connection; ref: sessionIdRef; error: the SSH error is on screen.
Tab == [mounted: BOOLEAN, target: Targets, sock: Sockets \cup {NoSocket},
        ref: Sockets \cup {NoSocket}, error: BOOLEAN]
Blank(k) == [mounted |-> FALSE, target |-> k, sock |-> NoSocket, ref |-> NoSocket,
             error |-> FALSE]
Mounted(k) == [Blank(k) EXCEPT !.mounted = TRUE]

TypeOK ==
    /\ tab \in [Tabs -> Tab]
    /\ conn \in [Sockets -> {"unused", "open", "left", "gone"}]
    /\ inbox \in [Sockets -> Seq({"output", "closed", "ack"})]
    /\ pty \in [Sockets -> {"none", "opening", "open", "closing", "ended"}]
    /\ sessions \subseteq Sockets
    /\ children \subseteq Sockets
    /\ owned \subseteq Sockets
    /\ late \subseteq Sockets
    /\ \A t \in Tabs : tab[t].sock # NoSocket => tab[t].mounted /\ conn[tab[t].sock] = "open"

Init ==
    /\ tab = [t \in Tabs |-> Blank("shell")]
    /\ conn = [s \in Sockets |-> "unused"]
    /\ inbox = [s \in Sockets |-> <<>>]
    /\ pty = [s \in Sockets |-> "none"]
    /\ sessions = {}
    /\ children = {}
    /\ owned = {}
    /\ late = {}

-----------------------------------------------------------------------------
(* The browser.                                                            *)

Mount(t) ==
    /\ ~tab[t].mounted
    /\ \E k \in Targets : tab' = [tab EXCEPT ![t] = Mounted(k)]
    /\ UNCHANGED <<conn, inbox, server>>

\* The socket connects, also again after it was lost; the client asks for a
\* session and handleCreate runs up to its first await.  It refuses a container
\* outside its try block: nothing but the id in owned remains, and the client,
\* which listens for no exception, hears nothing.
Connect(t, s) ==
    /\ tab[t].mounted
    /\ tab[t].sock = NoSocket
    /\ conn[s] = "unused"
    /\ \A r \in Sockets : r < s => conn[r] # "unused"
    /\ tab' = [tab EXCEPT ![t].sock = s]
    /\ conn' = [conn EXCEPT ![s] = "open"]
    /\ owned' = owned \cup {s}
    /\ \/ /\ tab[t].target = "refused container"
          /\ UNCHANGED <<pty, sessions, children, inbox>>
       \/ /\ tab[t].target = "docker"
          /\ pty' = [pty EXCEPT ![s] = "open"]
          /\ sessions' = sessions \cup {s}
          /\ children' = children \cup {s}
          /\ inbox' = [inbox EXCEPT ![s] = <<"ack">>]
       \/ /\ tab[t].target \in {"shell", "unsafe path"}
          /\ pty' = [pty EXCEPT ![s] = "opening"]
          /\ UNCHANGED <<sessions, children, inbox>>
    /\ UNCHANGED late

\* Output of another session than the one in sessionIdRef is not shown.
Read(x, message) ==
    CASE message = "ack"    -> [x EXCEPT !.ref = x.sock]
      [] message = "output" -> [x EXCEPT !.error = IF x.ref = x.sock THEN TRUE ELSE @]
      [] message = "closed" -> x

Receive(t) ==
    LET s == tab[t].sock
    IN /\ s # NoSocket
       /\ inbox[s] # <<>>
       /\ inbox' = [inbox EXCEPT ![s] = Tail(@)]
       /\ tab' = [tab EXCEPT ![t] = Read(@, Head(inbox[s]))]
       /\ UNCHANGED <<conn, server>>

\* The network fails.  The client will connect again, the server finds out
\* when its ping times out; what was on its way is lost.
Drop(t) ==
    LET s == tab[t].sock
    IN /\ s # NoSocket
       /\ tab' = [tab EXCEPT ![t].sock = NoSocket]
       /\ conn' = [conn EXCEPT ![s] = "left"]
       /\ inbox' = [inbox EXCEPT ![s] = <<>>]
       /\ UNCHANGED server

\* close() of a session in the map; its pty says when it has ended.
Closing(s) ==
    pty' = IF s \in sessions /\ pty[s] = "open" THEN [pty EXCEPT ![s] = "closing"] ELSE pty

\* The effect's clean-up: handleClose for the session it knows, if that is the
\* socket's own, then the socket is disconnected.
Unmount(t) ==
    LET s == tab[t].sock
    IN /\ tab[t].mounted
       /\ tab' = [tab EXCEPT ![t] = Blank(tab[t].target)]
       /\ IF s = NoSocket
            THEN UNCHANGED <<conn, inbox, server>>
            ELSE /\ conn' = [conn EXCEPT ![s] = "left"]
                 /\ inbox' = [inbox EXCEPT ![s] = <<>>]
                 /\ IF tab[t].ref = s /\ s \in owned
                      THEN /\ Closing(s)
                           /\ sessions' = sessions \ {s}
                           /\ owned' = owned \ {s}
                           /\ UNCHANGED <<children, late>>
                      ELSE UNCHANGED server

-----------------------------------------------------------------------------
(* The gateway.                                                            *)

Send(s, messages) ==
    inbox' = IF conn[s] = "open" THEN [inbox EXCEPT ![s] = @ \o messages] ELSE inbox

\* What the catch block sends, and the answer with the error.
Failure == <<"output", "closed", "ack">>

TargetOf(s) == IF \E t \in Tabs : tab[t].sock = s
                 THEN tab[CHOOSE t \in Tabs : tab[t].sock = s].target ELSE "shell"

\* handleCreate goes on when the shell is there, whoever is still listening.
\* A path that is not safe is reported as an error; the session stays.
PtyReady(s) ==
    /\ pty[s] = "opening"
    /\ pty' = [pty EXCEPT ![s] = "open"]
    /\ sessions' = sessions \cup {s}
    /\ Send(s, IF TargetOf(s) = "unsafe path" THEN Failure ELSE <<"ack">>)
    /\ late' = IF conn[s] = "gone" THEN late \cup {s} ELSE late
    /\ UNCHANGED <<tab, conn, children, owned>>

\* Mutant: the answer is given only to the one who can use it.
PtyFailsSilently(s) ==
    /\ pty[s] = "opening"
    /\ pty' = [pty EXCEPT ![s] = "ended"]
    /\ Send(s, <<"output", "closed">>)
    /\ UNCHANGED <<tab, conn, sessions, children, owned, late>>

\* No connection, no authentication, or no shell.
PtyFails(s) ==
    /\ pty[s] = "opening"
    /\ pty' = [pty EXCEPT ![s] = "ended"]
    /\ Send(s, Failure)
    /\ UNCHANGED <<tab, conn, sessions, children, owned, late>>

\* The close event, after close() or because the shell has ended by itself.
PtyCloses(s) ==
    /\ pty[s] \in {"open", "closing"}
    /\ pty' = [pty EXCEPT ![s] = "ended"]
    /\ sessions' = sessions \ {s}
    /\ children' = children \ {s}
    /\ owned' = owned \ {s}
    /\ Send(s, <<"closed">>)
    /\ UNCHANGED <<tab, conn, late>>

\* Mutant: the keys are deleted, the sessions are not closed.
HandleDisconnectForgets(s) ==
    /\ conn[s] = "left"
    /\ conn' = [conn EXCEPT ![s] = "gone"]
    /\ sessions' = sessions \ {s}
    /\ children' = children \ {s}
    /\ owned' = owned \ {s}
    /\ UNCHANGED <<tab, inbox, pty, late>>

HandleDisconnect(s) ==
    /\ conn[s] = "left"
    /\ conn' = [conn EXCEPT ![s] = "gone"]
    /\ IF s \in owned
         THEN /\ Closing(s)
              /\ sessions' = sessions \ {s}
              /\ children' = children \ {s}
              /\ owned' = owned \ {s}
         ELSE UNCHANGED <<pty, sessions, children, owned>>
    /\ UNCHANGED <<tab, inbox, late>>

\* The API dies: it is stopped, or a docker child could not be started and
\* nobody handles its error.  Its shells end with it, its clients reconnect.
ApiDies ==
    /\ \E s \in Sockets : conn[s] = "open"
    /\ tab' = [t \in Tabs |-> [tab[t] EXCEPT !.sock = NoSocket]]
    /\ conn' = [s \in Sockets |-> IF conn[s] = "unused" THEN "unused" ELSE "gone"]
    /\ inbox' = [s \in Sockets |-> <<>>]
    /\ pty' = [s \in Sockets |-> IF pty[s] = "none" THEN "none" ELSE "ended"]
    /\ sessions' = {}
    /\ children' = {}
    /\ owned' = {}
    /\ UNCHANGED late

-----------------------------------------------------------------------------

Next ==
    \/ \E t \in Tabs :
          \/ Mount(t)
          \/ \E s \in Sockets : Connect(t, s)
          \/ Receive(t)
          \/ Drop(t)
          \/ Unmount(t)
    \/ \E s \in Sockets :
          \/ PtyReady(s)
          \/ PtyFails(s)
          \/ PtyCloses(s)
          \/ HandleDisconnect(s)
    \/ ApiDies

\* Messages arrive, ssh2 reports success or an error (readyTimeout 10 s), a
\* session told to close ends, and pings time out.  A shell that nobody closes
\* need not end.
Fairness ==
    /\ \A t \in Tabs : WF_vars(Receive(t))
    /\ \A s \in Sockets :
          /\ WF_vars(PtyReady(s) \/ PtyFails(s))
          /\ WF_vars(pty[s] = "closing" /\ PtyCloses(s))
          /\ WF_vars(HandleDisconnect(s))

Spec == Init /\ [][Next]_vars /\ Fairness

-----------------------------------------------------------------------------
(* Properties.                                                             *)

\* A shell whose browser has gone is closed by handleDisconnect or handleClose,
\* unless the browser left while it was being opened.
StrayNeedsRace ==
    \A s \in Sockets : pty[s] = "open" /\ conn[s] = "gone" => s \in late

\* Until the server has seen its socket leave, a shell can be typed into and
\* closed: it is in both maps, also when its path was refused.
OpenIsReachable ==
    \A s \in Sockets :
        pty[s] = "open" /\ conn[s] # "gone" => s \in sessions /\ s \in owned

\* When the socket of a session leaves, its shell ends or has raced with it.
\* Nothing else ever closes a shell (SshService.onModuleDestroy does not).
LeftShellsEnd ==
    \A s \in Sockets : conn[s] = "left" ~> pty[s] \in {"none", "ended"} \/ s \in late

\* A client that stays connected learns its session, so that it can close it,
\* whether the shell opened or failed; only of a refused container it never
\* hears (handleCreate throws outside its try block).
ClientLearnsSession ==
    \A t \in Tabs, s \in Sockets :
        <>[](tab[t].sock = s /\ tab[t].target # "refused container") => <>[](tab[t].ref = s)

\* docs/TROUBLESHOOTING.md on "Authentication failed" in the terminal: what the
\* catch block of handleCreate writes is read by the user.
ErrorIsShown ==
    \A t \in Tabs : LET s == tab[t].sock IN
        s # NoSocket /\ tab[t].ref = s /\ s \in owned /\ pty[s] = "ended" => tab[t].error

=============================================================================
