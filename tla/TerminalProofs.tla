--------------------------- MODULE TerminalProofs ---------------------------
(***************************************************************************)
(* Theorems about Terminal, for any number of tabs and sockets, and about  *)
(* Subscriptions, the other gateway that keeps resources for its sockets.  *)
(***************************************************************************)
EXTENDS Terminal, Subscriptions, FiniteSetTheorems, SequenceTheorems, TLAPS

Message == {"output", "closed", "ack"}
PtyState == {"none", "opening", "open", "closing", "ended"}

-----------------------------------------------------------------------------
(* The inductive invariant.  Only an answer tells a client its session, and *)
(* there is none before the shell is there: until then nobody but          *)
(* handleDisconnect can take the session out of owned.                     *)

OneTabPerSocket ==
    \A t, u \in Tabs : tab[t].sock # NoSocket /\ tab[t].sock = tab[u].sock => t = u

Unknown(s) == inbox[s] = <<>> /\ \A t \in Tabs : tab[t].ref # s

UnusedIsBlank ==
    \A s \in Sockets : conn[s] = "unused" =>
        /\ pty[s] = "none"
        /\ Unknown(s)
        /\ \A t \in Tabs : tab[t].sock # s

OpeningIsOwned ==
    \A s \in Sockets : pty[s] = "opening" =>
        /\ Unknown(s)
        /\ conn[s] # "gone" => s \in owned

Inv ==
    /\ TypeOK
    /\ OneTabPerSocket
    /\ UnusedIsBlank
    /\ OpeningIsOwned
    /\ OpenIsReachable
    /\ StrayNeedsRace

-----------------------------------------------------------------------------
(* Values.                                                                 *)

LEMMA TabTypes ==
    /\ \A k \in Targets : /\ Blank(k) \in Tab /\ Blank(k).sock = NoSocket
                          /\ Blank(k).ref = NoSocket /\ ~Blank(k).mounted
                          /\ Mounted(k) \in Tab /\ Mounted(k).sock = NoSocket
                          /\ Mounted(k).ref = NoSocket /\ Mounted(k).mounted
    /\ NoSocket \notin Sockets
<1>1. \A k \in Targets : /\ Blank(k) \in Tab /\ Blank(k).sock = NoSocket
                         /\ Blank(k).ref = NoSocket /\ ~Blank(k).mounted
  BY DEF Tab, Blank
<1>2. \A x \in Tab : LET y == [x EXCEPT !.mounted = TRUE]
                     IN y \in Tab /\ y.sock = x.sock /\ y.ref = x.ref /\ y.mounted
  BY DEF Tab
<1>3. \A k \in Targets : Mounted(k) = [Blank(k) EXCEPT !.mounted = TRUE]
  BY DEF Mounted
<1>4. NoSocket \notin Sockets
  BY DEF NoSocket, Sockets
<1>q. QED
  BY <1>1, <1>2, <1>3, <1>4

LEMMA TabUpdate ==
    ASSUME NEW x \in Tab, NEW s \in Sockets \cup {NoSocket}, NEW b \in BOOLEAN
    PROVE  /\ [x EXCEPT !.sock = s] \in Tab
           /\ [x EXCEPT !.ref = s] \in Tab
           /\ [x EXCEPT !.error = b] \in Tab
BY DEF Tab

LEMMA ReadType ==
    ASSUME NEW x \in Tab, x.sock \in Sockets, NEW m \in Message
    PROVE  /\ Read(x, m) \in Tab
           /\ Read(x, m).sock = x.sock /\ Read(x, m).mounted = x.mounted
           /\ Read(x, m).ref = x.ref \/ Read(x, m).ref = x.sock
<1>1. CASE m = "ack"
  <2>1. Read(x, m) = [x EXCEPT !.ref = x.sock]
    BY <1>1 DEF Read
  <2>q. QED
    BY <2>1 DEF Tab
<1>2. CASE m = "output"
  <2>1. Read(x, m) = [x EXCEPT !.error = IF x.ref = x.sock THEN TRUE ELSE x.error]
    BY <1>2 DEF Read
  <2>q. QED
    BY <2>1 DEF Tab
<1>3. CASE m = "closed"
  BY <1>3 DEF Read
<1>q. QED
  BY <1>1, <1>2, <1>3 DEF Message

LEMMA Messages ==
    /\ Failure \in Seq(Message)
    /\ <<"ack">> \in Seq(Message)
    /\ <<"closed">> \in Seq(Message)
    /\ <<>> \in Seq(Message)
    /\ \A m \in Seq(Message), n \in Seq(Message) : m \o n \in Seq(Message)
    /\ \A m \in Seq(Message) : m # <<>> => Tail(m) \in Seq(Message) /\ Head(m) \in Message
BY DEF Failure, Message

LEMMA SendType ==
    ASSUME inbox \in [Sockets -> Seq(Message)],
           NEW s \in Sockets, NEW m \in Seq(Message), Send(s, m)
    PROVE  /\ inbox' \in [Sockets -> Seq(Message)]
           /\ \A r \in Sockets : r # s => inbox'[r] = inbox[r]
           /\ conn[s] = "unused" => inbox'[s] = inbox[s]
<1>1. inbox[s] \o m \in Seq(Message)
  BY Messages
<1>q. QED
  BY <1>1 DEF Send

-----------------------------------------------------------------------------

LEMMA Types ==
    ASSUME TypeOK
    PROVE  /\ tab \in [Tabs -> Tab]
           /\ conn \in [Sockets -> {"unused", "open", "left", "gone"}]
           /\ inbox \in [Sockets -> Seq(Message)]
           /\ pty \in [Sockets -> PtyState]
           /\ sessions \in SUBSET Sockets
           /\ children \in SUBSET Sockets
           /\ owned \in SUBSET Sockets
           /\ late \in SUBSET Sockets
           /\ \A t \in Tabs : /\ tab[t].mounted \in BOOLEAN
                              /\ tab[t].target \in Targets
                              /\ tab[t].sock \in Sockets \cup {NoSocket}
                              /\ tab[t].ref \in Sockets \cup {NoSocket}
                              /\ tab[t].error \in BOOLEAN
<1>1. ASSUME NEW x \in Tab
      PROVE  /\ x.mounted \in BOOLEAN
             /\ x.target \in Targets
             /\ x.sock \in Sockets \cup {NoSocket}
             /\ x.ref \in Sockets \cup {NoSocket}
             /\ x.error \in BOOLEAN
  BY DEF Tab
<1>q. QED
  BY <1>1 DEF TypeOK, Message, PtyState

\* A step that gives one tab a new value without a socket.
LEMMA TabReset ==
    ASSUME Inv, NEW t \in Tabs, NEW x \in Tab,
           tab' = [tab EXCEPT ![t] = x], x.sock = NoSocket, x.ref = NoSocket
    PROVE  /\ tab' \in [Tabs -> Tab]
           /\ OneTabPerSocket'
           /\ \A u \in Tabs : /\ tab'[u].sock # NoSocket => u # t /\ tab'[u] = tab[u]
                              /\ tab'[u].ref # NoSocket => u # t /\ tab'[u] = tab[u]
BY Types DEF Inv, OneTabPerSocket

LEMMA MountKeeps == ASSUME Inv, NEW t \in Tabs, Mount(t) PROVE Inv'
<1>1. PICK k \in Targets : tab' = [tab EXCEPT ![t] = Mounted(k)]
  BY DEF Mount
<1>2. UNCHANGED <<conn, inbox, pty, sessions, children, owned, late>>
  BY DEF Mount, server
<1>3. /\ tab' \in [Tabs -> Tab] /\ OneTabPerSocket'
      /\ \A u \in Tabs : /\ tab'[u].sock # NoSocket => u # t /\ tab'[u] = tab[u]
                         /\ tab'[u].ref # NoSocket => u # t /\ tab'[u] = tab[u]
  BY <1>1, TabReset, TabTypes
<1>4. \A s \in Sockets : Unknown(s) => Unknown(s)'
  BY <1>2, <1>3, TabTypes DEF Unknown
<1>5. TypeOK'
  BY <1>2, <1>3 DEF Inv, TypeOK
<1>6. UnusedIsBlank' /\ OpeningIsOwned'
  BY <1>2, <1>3, <1>4, TabTypes DEF Inv, UnusedIsBlank, OpeningIsOwned
<1>q. QED
  BY <1>2, <1>3, <1>5, <1>6 DEF Inv, OpenIsReachable, StrayNeedsRace

LEMMA ConnectKeeps == ASSUME Inv, NEW t \in Tabs, NEW s \in Sockets, Connect(t, s) PROVE Inv'
<1>0. /\ tab[t].mounted /\ tab[t].sock = NoSocket /\ conn[s] = "unused"
      /\ tab' = [tab EXCEPT ![t].sock = s]
      /\ conn' = [conn EXCEPT ![s] = "open"]
      /\ owned' = owned \cup {s}
      /\ UNCHANGED late
  BY DEF Connect
<1>1. /\ inbox' \in [Sockets -> Seq(Message)]
      /\ pty' \in [Sockets -> PtyState]
      /\ sessions' \in SUBSET Sockets /\ children' \in SUBSET Sockets
      /\ \A r \in Sockets : r # s => inbox'[r] = inbox[r] /\ pty'[r] = pty[r]
      /\ sessions \subseteq sessions'
      /\ \/ pty'[s] = "open" /\ s \in sessions'
         \/ pty'[s] \in {"none", "opening"} /\ inbox'[s] = <<>>
  <2>1. CASE tab[t].target = "docker"
    <3>1. /\ pty' = [pty EXCEPT ![s] = "open"]
          /\ sessions' = sessions \cup {s}
          /\ children' = children \cup {s}
          /\ inbox' = [inbox EXCEPT ![s] = <<"ack">>]
      BY <2>1 DEF Connect
    <3>q. QED
      BY <3>1, Types, Messages DEF Inv, PtyState
  <2>2. CASE tab[t].target # "docker"
    <3>1. /\ pty' \in {pty, [pty EXCEPT ![s] = "opening"]}
          /\ UNCHANGED <<sessions, children, inbox>>
      BY <2>2 DEF Connect
    <3>2. inbox[s] = <<>> /\ pty[s] = "none"
      BY <1>0 DEF Inv, UnusedIsBlank, Unknown
    <3>q. QED
      BY <3>1, <3>2, Types DEF Inv, PtyState
  <2>q. QED
    BY <2>1, <2>2
<1>2. /\ tab[t] \in Tab /\ [tab[t] EXCEPT !.sock = s] \in Tab
      /\ tab'[t].sock = s /\ tab'[t].ref = tab[t].ref /\ tab'[t].mounted = tab[t].mounted
      /\ \A u \in Tabs : u # t => tab'[u] = tab[u]
      /\ tab' \in [Tabs -> Tab]
  <2>1. tab[t] \in Tab /\ [tab[t] EXCEPT !.sock = s] \in Tab
    BY Types, TabUpdate DEF Inv
  <2>2. tab' = [tab EXCEPT ![t] = [tab[t] EXCEPT !.sock = s]]
    BY <1>0
  <2>3. /\ [tab[t] EXCEPT !.sock = s].sock = s
        /\ [tab[t] EXCEPT !.sock = s].ref = tab[t].ref
        /\ [tab[t] EXCEPT !.sock = s].mounted = tab[t].mounted
    BY <2>1 DEF Tab
  <2>q. QED
    BY <2>1, <2>2, <2>3, Types DEF Inv
<1>3. \A u \in Tabs : tab[u].sock # s /\ tab[u].ref # s
  BY <1>0 DEF Inv, UnusedIsBlank, Unknown
<1>4. TypeOK'
  <2>1. \A u \in Tabs : tab'[u].sock # NoSocket =>
                           tab'[u].mounted /\ conn'[tab'[u].sock] = "open"
    BY <1>0, <1>2, <1>3, Types DEF Inv, TypeOK
  <2>q. QED
    BY <1>0, <1>1, <1>2, <2>1, Types DEF Inv, TypeOK, Message, PtyState
<1>5. OneTabPerSocket'
  BY <1>0, <1>2, <1>3 DEF Inv, OneTabPerSocket
<1>6. \A r \in Sockets : r # s /\ Unknown(r) => Unknown(r)'
  BY <1>1, <1>2 DEF Unknown
<1>7. inbox'[s] = <<>> => Unknown(s)'
  BY <1>2, <1>3 DEF Unknown
<1>8. UnusedIsBlank'
  BY <1>0, <1>1, <1>2, <1>6, Types DEF Inv, UnusedIsBlank
<1>9. OpeningIsOwned'
  BY <1>0, <1>1, <1>6, <1>7, Types DEF Inv, OpeningIsOwned
<1>10. OpenIsReachable' /\ StrayNeedsRace'
  BY <1>0, <1>1, Types DEF Inv, OpenIsReachable, StrayNeedsRace
<1>q. QED
  BY <1>4, <1>5, <1>8, <1>9, <1>10 DEF Inv

LEMMA ReceiveKeeps == ASSUME Inv, NEW t \in Tabs, Receive(t) PROVE Inv'
<1>1. PICK s \in Sockets : s = tab[t].sock
  BY Types DEF Inv, Receive
<1>2. /\ inbox[s] # <<>>
      /\ inbox' = [inbox EXCEPT ![s] = Tail(inbox[s])]
      /\ UNCHANGED <<conn, pty, sessions, children, owned, late>>
  BY <1>1 DEF Receive, server
<1>3. inbox[s] \in Seq(Message) /\ Tail(inbox[s]) \in Seq(Message) /\ Head(inbox[s]) \in Message
  BY <1>2, Types, Messages DEF Inv
<1>4. PICK x \in Tab : /\ tab' = [tab EXCEPT ![t] = x]
                       /\ x.sock = s /\ x.mounted = tab[t].mounted
                       /\ x.ref = tab[t].ref \/ x.ref = s
  <2>1. tab[t] \in Tab /\ s \in Sockets
    BY <1>1, Types DEF Inv
  <2>2. tab' = [tab EXCEPT ![t] = Read(tab[t], Head(inbox[s]))]
    BY <1>1 DEF Receive
  <2>q. QED
    BY <1>1, <1>3, <2>1, <2>2, ReadType
<1>5. /\ tab' \in [Tabs -> Tab]
      /\ \A u \in Tabs : /\ tab'[u].sock = tab[u].sock
                         /\ tab'[u].mounted = tab[u].mounted
                         /\ tab'[u].ref = tab[u].ref \/ tab'[u].ref = s
  BY <1>1, <1>4, Types DEF Inv
<1>6. inbox' \in [Sockets -> Seq(Message)] /\ \A r \in Sockets : r # s => inbox'[r] = inbox[r]
  BY <1>2, <1>3, Types DEF Inv
<1>7. \A r \in Sockets : Unknown(r) => r # s /\ Unknown(r)'
  BY <1>2, <1>5, <1>6 DEF Unknown
<1>8. TypeOK'
  BY <1>2, <1>5, <1>6, Types DEF Inv, TypeOK, Message
<1>9. OneTabPerSocket' /\ UnusedIsBlank' /\ OpeningIsOwned'
  BY <1>2, <1>5, <1>7 DEF Inv, OneTabPerSocket, UnusedIsBlank, OpeningIsOwned
<1>q. QED
  BY <1>2, <1>8, <1>9 DEF Inv, OpenIsReachable, StrayNeedsRace

\* What Drop and Unmount do to the socket of a tab.
LEMMA LeaveKeeps ==
    ASSUME Inv, NEW t \in Tabs, NEW s \in Sockets, tab[t].sock = s,
           NEW x \in Tab, tab' = [tab EXCEPT ![t] = x],
           x.sock = NoSocket, x.ref = NoSocket \/ x.ref = tab[t].ref,
           conn' = [conn EXCEPT ![s] = "left"],
           inbox' = [inbox EXCEPT ![s] = <<>>],
           UNCHANGED <<children, late>>,
           \/ UNCHANGED <<pty, sessions, owned>>
           \/ /\ tab[t].ref = s
              /\ Closing(s)
              /\ sessions' = sessions \ {s}
              /\ owned' = owned \ {s}
    PROVE  Inv'
<1>0. conn[s] = "open"
  BY TabTypes DEF Inv, TypeOK
<1>1. /\ tab' \in [Tabs -> Tab]
      /\ \A u \in Tabs : /\ tab'[u].sock # NoSocket => u # t /\ tab'[u] = tab[u]
                         /\ tab'[u].ref = NoSocket \/ tab'[u].ref = tab[u].ref
  BY Types DEF Inv
<1>2. \A u \in Tabs : tab'[u].sock # s
  BY <1>1, TabTypes DEF Inv, OneTabPerSocket
<1>3. /\ inbox' \in [Sockets -> Seq(Message)]
      /\ inbox'[s] = <<>> /\ \A r \in Sockets : r # s => inbox'[r] = inbox[r]
  BY Types, Messages DEF Inv
<1>4. \A r \in Sockets : Unknown(r) => Unknown(r)'
  BY <1>1, <1>3, TabTypes DEF Unknown
<1>5. /\ pty' \in [Sockets -> PtyState]
      /\ sessions' \in SUBSET Sockets /\ owned' \in SUBSET Sockets
      /\ \A r \in Sockets : r # s => /\ pty'[r] = pty[r]
                                     /\ (r \in sessions' <=> r \in sessions)
                                     /\ (r \in owned' <=> r \in owned)
      /\ \/ /\ pty'[s] = pty[s]
            /\ (s \in sessions' <=> s \in sessions)
            /\ (s \in owned' <=> s \in owned)
         \/ tab[t].ref = s /\ pty'[s] = (IF s \in sessions /\ pty[s] = "open" THEN "closing" ELSE pty[s])
  BY Types DEF Inv, Closing, PtyState
<1>6. TypeOK'
  <2>1. \A u \in Tabs : tab'[u].sock # NoSocket =>
                           tab'[u].mounted /\ conn'[tab'[u].sock] = "open"
    BY <1>1, <1>2, Types DEF Inv, TypeOK
  <2>q. QED
    BY <1>1, <1>3, <1>5, <2>1, Types DEF Inv, TypeOK, Message, PtyState
<1>7. OneTabPerSocket'
  BY <1>1 DEF Inv, OneTabPerSocket
<1>8. UnusedIsBlank'
  BY <1>0, <1>1, <1>4, <1>5, TabTypes, Types DEF Inv, UnusedIsBlank
<1>9. OpeningIsOwned'
  <2>1. pty[s] = "opening" => tab[t].ref # s
    BY DEF Inv, OpeningIsOwned, Unknown
  <2>q. QED
    BY <1>0, <1>4, <1>5, <2>1, Types DEF Inv, OpeningIsOwned
<1>10. OpenIsReachable' /\ StrayNeedsRace'
  <2>1. pty[s] = "open" => s \in sessions /\ s \in owned
    BY <1>0 DEF Inv, OpenIsReachable
  <2>q. QED
    BY <1>0, <1>5, <2>1, Types DEF Inv, OpenIsReachable, StrayNeedsRace
<1>q. QED
  BY <1>6, <1>7, <1>8, <1>9, <1>10 DEF Inv

LEMMA DropKeeps == ASSUME Inv, NEW t \in Tabs, Drop(t) PROVE Inv'
<1>1. PICK s \in Sockets : s = tab[t].sock
  BY Types DEF Inv, Drop
<1>2. /\ tab' = [tab EXCEPT ![t] = [tab[t] EXCEPT !.sock = NoSocket]]
      /\ conn' = [conn EXCEPT ![s] = "left"]
      /\ inbox' = [inbox EXCEPT ![s] = <<>>]
      /\ UNCHANGED <<pty, sessions, children, owned, late>>
  BY <1>1 DEF Drop, server
<1>3. /\ [tab[t] EXCEPT !.sock = NoSocket] \in Tab
      /\ [tab[t] EXCEPT !.sock = NoSocket].sock = NoSocket
      /\ [tab[t] EXCEPT !.sock = NoSocket].ref = tab[t].ref
  <2>1. tab[t] \in Tab
    BY Types DEF Inv
  <2>q. QED
    BY <2>1 DEF Tab
<1>q. QED
  BY <1>1, <1>2, <1>3, LeaveKeeps

LEMMA UnmountKeeps == ASSUME Inv, NEW t \in Tabs, Unmount(t) PROVE Inv'
<1>0. /\ tab[t].target \in Targets
      /\ tab' = [tab EXCEPT ![t] = Blank(tab[t].target)]
      /\ Blank(tab[t].target) \in Tab
      /\ Blank(tab[t].target).sock = NoSocket /\ Blank(tab[t].target).ref = NoSocket
  BY Types, TabTypes DEF Inv, Unmount
<1>1. CASE tab[t].sock = NoSocket
  <2>1. UNCHANGED <<conn, inbox, pty, sessions, children, owned, late>>
    BY <1>1 DEF Unmount, server
  <2>2. /\ tab' \in [Tabs -> Tab] /\ OneTabPerSocket'
        /\ \A u \in Tabs : /\ tab'[u].sock # NoSocket => u # t /\ tab'[u] = tab[u]
                           /\ tab'[u].ref # NoSocket => u # t /\ tab'[u] = tab[u]
    BY <1>0, TabReset
  <2>3. \A s \in Sockets : Unknown(s) => Unknown(s)'
    BY <2>1, <2>2, TabTypes DEF Unknown
  <2>4. TypeOK'
    BY <2>1, <2>2 DEF Inv, TypeOK
  <2>5. UnusedIsBlank' /\ OpeningIsOwned'
    BY <2>1, <2>2, <2>3, TabTypes DEF Inv, UnusedIsBlank, OpeningIsOwned
  <2>q. QED
    BY <2>1, <2>2, <2>4, <2>5 DEF Inv, OpenIsReachable, StrayNeedsRace
<1>2. CASE tab[t].sock # NoSocket
  <2>1. PICK s \in Sockets : s = tab[t].sock
    BY <1>2, Types DEF Inv
  <2>2. /\ conn' = [conn EXCEPT ![s] = "left"]
        /\ inbox' = [inbox EXCEPT ![s] = <<>>]
        /\ UNCHANGED <<children, late>>
        /\ \/ UNCHANGED <<pty, sessions, owned>>
           \/ /\ tab[t].ref = s
              /\ Closing(s)
              /\ sessions' = sessions \ {s}
              /\ owned' = owned \ {s}
    BY <1>2, <2>1, Zenon DEF Unmount, server
  <2>q. QED
    BY <1>0, <2>1, <2>2, LeaveKeeps
<1>q. QED
  BY <1>1, <1>2

-----------------------------------------------------------------------------
(* The gateway's steps change one session.                                 *)

LEMMA GatewayKeeps ==
    ASSUME Inv, NEW s \in Sockets, NEW m \in Seq(Message),
           UNCHANGED <<tab, conn>>, Send(s, m),
           NEW p \in {"open", "ended"}, pty' = [pty EXCEPT ![s] = p],
           pty[s] # "none",
           sessions' \in SUBSET Sockets, children' \in SUBSET Sockets,
           owned' \in SUBSET Sockets, late' \in SUBSET Sockets,
           \A r \in Sockets : r # s => /\ r \in sessions' <=> r \in sessions
                                       /\ r \in owned' <=> r \in owned
                                       /\ r \in late' <=> r \in late,
           p = "open" => /\ s \in sessions'
                         /\ conn[s] # "gone" => s \in owned'
                         /\ conn[s] = "gone" => s \in late'
    PROVE  Inv'
<1>1. /\ inbox' \in [Sockets -> Seq(Message)]
      /\ \A r \in Sockets : r # s => inbox'[r] = inbox[r]
  BY Types, SendType DEF Inv
<1>2. /\ pty' \in [Sockets -> PtyState] /\ pty'[s] = p
      /\ \A r \in Sockets : r # s => pty'[r] = pty[r]
  BY Types DEF Inv, PtyState
<1>3. \A r \in Sockets : r # s /\ Unknown(r) => Unknown(r)'
  BY <1>1 DEF Unknown
<1>4. TypeOK'
  BY <1>1, <1>2 DEF Inv, TypeOK, Message, PtyState
<1>5. OneTabPerSocket'
  BY DEF Inv, OneTabPerSocket
<1>6. UnusedIsBlank'
  BY <1>2, <1>3 DEF Inv, UnusedIsBlank
<1>7. OpeningIsOwned'
  BY <1>2, <1>3 DEF Inv, OpeningIsOwned
<1>8. OpenIsReachable' /\ StrayNeedsRace'
  BY <1>2 DEF Inv, OpenIsReachable, StrayNeedsRace
<1>q. QED
  BY <1>4, <1>5, <1>6, <1>7, <1>8 DEF Inv

LEMMA PtyReadyKeeps == ASSUME Inv, NEW s \in Sockets, PtyReady(s) PROVE Inv'
<1>1. PICK m \in Seq(Message) : Send(s, m)
  BY Messages, Zenon DEF PtyReady
<1>2. /\ pty[s] = "opening" /\ pty' = [pty EXCEPT ![s] = "open"]
      /\ sessions' = sessions \cup {s}
      /\ late' = IF conn[s] = "gone" THEN late \cup {s} ELSE late
      /\ UNCHANGED <<tab, conn, children, owned>>
  BY DEF PtyReady
<1>3. conn[s] # "gone" => s \in owned
  BY <1>2 DEF Inv, OpeningIsOwned
<1>q. QED
  BY <1>1, <1>2, <1>3, Types, GatewayKeeps DEF Inv

LEMMA PtyFailsKeeps == ASSUME Inv, NEW s \in Sockets, PtyFails(s) PROVE Inv'
BY Messages, Types, GatewayKeeps DEF Inv, PtyFails

LEMMA PtyClosesKeeps == ASSUME Inv, NEW s \in Sockets, PtyCloses(s) PROVE Inv'
BY Messages, Types, GatewayKeeps DEF Inv, PtyCloses

LEMMA DisconnectKeeps == ASSUME Inv, NEW s \in Sockets, HandleDisconnect(s) PROVE Inv'
<1>0. /\ conn[s] = "left" /\ conn' = [conn EXCEPT ![s] = "gone"]
      /\ UNCHANGED <<tab, inbox, late>>
  BY DEF HandleDisconnect
<1>1. /\ pty' \in [Sockets -> PtyState]
      /\ sessions' \in SUBSET Sockets /\ children' \in SUBSET Sockets /\ owned' \in SUBSET Sockets
      /\ \A r \in Sockets : r # s => /\ pty'[r] = pty[r]
                                     /\ r \in sessions' <=> r \in sessions
                                     /\ r \in owned' <=> r \in owned
      /\ pty'[s] # "open"
      /\ pty'[s] = "opening" => pty[s] = "opening"
  <2>1. pty[s] = "open" => s \in sessions /\ s \in owned
    BY <1>0 DEF Inv, OpenIsReachable
  <2>2. CASE s \in owned
    BY <2>1, <2>2, Types DEF Inv, HandleDisconnect, Closing, PtyState
  <2>3. CASE s \notin owned
    BY <2>1, <2>3, Types DEF Inv, HandleDisconnect
  <2>q. QED
    BY <2>2, <2>3
<1>2. \A r \in Sockets : Unknown(r) => Unknown(r)'
  BY <1>0 DEF Unknown
<1>3. TypeOK'
  <2>1. \A u \in Tabs : tab[u].sock # s
    BY <1>0, TabTypes DEF Inv, TypeOK
  <2>2. \A u \in Tabs : tab'[u].sock # NoSocket => tab'[u].mounted /\ conn'[tab'[u].sock] = "open"
    BY <1>0, <2>1, Types DEF Inv, TypeOK
  <2>q. QED
    BY <1>0, <1>1, <2>2 DEF Inv, TypeOK, PtyState
<1>4. OneTabPerSocket'
  BY <1>0 DEF Inv, OneTabPerSocket
<1>5. UnusedIsBlank'
  BY <1>0, <1>1, <1>2, Types DEF Inv, UnusedIsBlank
<1>6. OpeningIsOwned'
  BY <1>0, <1>1, <1>2, Types DEF Inv, OpeningIsOwned
<1>7. OpenIsReachable' /\ StrayNeedsRace'
  BY <1>0, <1>1, Types DEF Inv, OpenIsReachable, StrayNeedsRace
<1>q. QED
  BY <1>3, <1>4, <1>5, <1>6, <1>7 DEF Inv

LEMMA ApiDiesKeeps == ASSUME Inv, ApiDies PROVE Inv'
<1>0. /\ \A s \in Sockets : conn'[s] = "unused" => conn[s] = "unused"
      /\ conn' \in [Sockets -> {"unused", "gone"}]
      /\ inbox' = [s \in Sockets |-> <<>>]
      /\ pty' \in [Sockets -> {"none", "ended"}]
      /\ \A s \in Sockets : pty[s] = "none" => pty'[s] = "none"
      /\ sessions' = {} /\ children' = {} /\ owned' = {} /\ late' = late
  BY DEF ApiDies
<1>1. \A t \in Tabs : LET x == [tab[t] EXCEPT !.sock = NoSocket]
                       IN x \in Tab /\ x.sock = NoSocket /\ x.ref = tab[t].ref
  <2>1. \A x \in Tab : LET y == [x EXCEPT !.sock = NoSocket]
                        IN y \in Tab /\ y.sock = NoSocket /\ y.ref = x.ref
    BY DEF Tab
  <2>q. QED
    BY <2>1, Types DEF Inv
<1>2. /\ tab' \in [Tabs -> Tab]
      /\ \A t \in Tabs : tab'[t].sock = NoSocket /\ tab'[t].ref = tab[t].ref
  BY <1>1 DEF ApiDies
<1>3. TypeOK'
  BY <1>0, <1>2, Types, Messages DEF Inv, TypeOK, Message
<1>4. UnusedIsBlank'
  BY <1>0, <1>2, TabTypes DEF Inv, UnusedIsBlank, Unknown
<1>q. QED
  BY <1>0, <1>2, <1>3, <1>4
     DEF Inv, OneTabPerSocket, OpeningIsOwned, OpenIsReachable, StrayNeedsRace

-----------------------------------------------------------------------------
(* Theorems.                                                               *)

LEMMA InitInv == Init => Inv
<1> SUFFICES ASSUME Init PROVE Inv
  OBVIOUS
<1>1. Blank("shell") \in Tab /\ Blank("shell").sock = NoSocket /\ Blank("shell").ref = NoSocket
  BY TabTypes DEF Targets
<1>2. TypeOK
  BY <1>1, Messages DEF Init, TypeOK, Message
<1>q. QED
  BY <1>1, <1>2, TabTypes
     DEF Init, Inv, OneTabPerSocket, UnusedIsBlank, Unknown, OpeningIsOwned, OpenIsReachable,
         StrayNeedsRace

LEMMA StepInv == ASSUME Inv, [Next]_vars PROVE Inv'
<1>1. CASE UNCHANGED vars
  <2>1. UNCHANGED <<tab, conn, inbox, pty, sessions, children, owned, late>>
    BY <1>1 DEF vars
  <2>q. QED
    BY <2>1 DEF Inv, TypeOK, OneTabPerSocket, UnusedIsBlank, Unknown, OpeningIsOwned,
                OpenIsReachable, StrayNeedsRace
<1>2. CASE Next
  BY <1>2, MountKeeps, ConnectKeeps, ReceiveKeeps, DropKeeps, UnmountKeeps, PtyReadyKeeps,
     PtyFailsKeeps, PtyClosesKeeps, DisconnectKeeps, ApiDiesKeeps DEF Next
<1>q. QED
  BY <1>1, <1>2

\* The inductive invariant.
THEOREM TerminalInvariant == Spec => []Inv
BY InitInv, StepInv, PTL DEF Spec

\* Type correctness; a client's socket is open.
THEOREM TerminalTypeCorrect == Spec => []TypeOK
<1>1. Inv => TypeOK
  BY DEF Inv
<1>q. QED
  BY <1>1, TerminalInvariant, PTL

\* A shell outlives its browser only if the browser left while it was opened.
THEOREM TerminalStray == Spec => []StrayNeedsRace
<1>1. Inv => StrayNeedsRace
  BY DEF Inv
<1>q. QED
  BY <1>1, TerminalInvariant, PTL

\* An open shell can be typed into and closed until its socket is gone.
THEOREM TerminalReachable == Spec => []OpenIsReachable
<1>1. Inv => OpenIsReachable
  BY DEF Inv
<1>q. QED
  BY <1>1, TerminalInvariant, PTL

-----------------------------------------------------------------------------
(***************************************************************************)
(* Theorems about Subscriptions, the other gateway to streams of a server, *)
(* for any number of clients, containers and subscriptions.                *)
(***************************************************************************)

\* The number a subscription gets.
fresh == Cardinality(made) + 1

LEMMA Numbers ==
    ASSUME SubTypeOK
    PROVE  /\ Cardinality(made) \in 0..MaxSubs
           /\ made = 1..Cardinality(made)
           /\ sub \in [made -> Sub]
           /\ fresh \notin made
           /\ 0 \notin made
<1>1. PICK n \in 0..MaxSubs : sub \in [1..n -> Sub]
  BY DEF SubTypeOK
<1>2. made = 1..n
  BY <1>1 DEF made
<1>3. n \in Nat /\ Cardinality(1..n) = n
  <2>1. n \in Nat
    BY SubscriptionAssumption
  <2>2. Cardinality(1..n) = IF 1 > n THEN 0 ELSE n - 1 + 1
    BY <2>1, FS_Interval
  <2>q. QED
    BY <2>1, <2>2
<1>q. QED
  BY <1>1, <1>2, <1>3 DEF fresh

\* What Make does to the subscriptions.
LEMMA Made ==
    ASSUME SubTypeOK, NEW c \in Clients, NEW t \in Topics, NEW pc \in {"opening", "open"},
           Make(c, t, pc)
    PROVE  /\ fresh \in Subs /\ fresh # 0
           /\ made' = made \cup {fresh}
           /\ sub'[fresh] = [client |-> c, topic |-> t, pc |-> pc]
           /\ \A m \in made : sub'[m] = sub[m]
           /\ sub' \in [made' -> Sub]
           /\ \E n \in 0..MaxSubs : sub' \in [1..n -> Sub]
           /\ cbs' = [cbs EXCEPT ![t] = @ \cup {fresh}]
           /\ asked' = [asked EXCEPT ![<<c, t>>] = TRUE]
<1>1. fresh \in 1..MaxSubs /\ Cardinality(made) = fresh - 1
  <2>1. Cardinality(made) < MaxSubs
    BY DEF Make
  <2>q. QED
    BY <2>1, Numbers, SubscriptionAssumption DEF fresh
<1>2. sub' = [i \in 1..fresh |-> IF i = fresh THEN [client |-> c, topic |-> t, pc |-> pc]
                               ELSE sub[i]]
  BY DEF Make, fresh
<1>3. 1..fresh = made \cup {fresh} /\ fresh \notin made /\ sub \in [made -> Sub]
  BY <1>1, Numbers, SubscriptionAssumption
<1>4. [client |-> c, topic |-> t, pc |-> pc] \in Sub
  BY DEF Sub
<1>5. DOMAIN sub' = made \cup {fresh}
  BY <1>2, <1>3
<1>6. \A i \in 1..fresh : sub'[i] = IF i = fresh THEN [client |-> c, topic |-> t, pc |-> pc]
                               ELSE sub[i]
  BY <1>2
<1>7. sub' \in [1..fresh -> Sub]
  BY <1>2, <1>3, <1>4
<1>8. made' = made \cup {fresh}
  BY <1>5 DEF made
<1>9. /\ cbs' = [cbs EXCEPT ![t] = @ \cup {fresh}]
      /\ asked' = [asked EXCEPT ![<<c, t>>] = TRUE]
  BY DEF Make, fresh
<1>10. fresh \in Subs /\ fresh # 0
  BY <1>1, SubscriptionAssumption DEF Subs
<1>11. \E n \in 0..MaxSubs : sub' \in [1..n -> Sub]
  BY <1>1, <1>7, SubscriptionAssumption
<1>12. sub' \in [made' -> Sub]
  BY <1>3, <1>7, <1>8
<1>q. QED
  BY <1>1, <1>3, <1>6, <1>8, <1>9, <1>10, <1>11, <1>12

-----------------------------------------------------------------------------
(* Initially.                                                              *)

LEMMA SubscriptionsInit == SubInit => SubInv
<1> SUFFICES ASSUME SubInit PROVE SubInv
  OBVIOUS
<1>1. made = {}
  BY DEF SubInit, made
<1>2. SubTypeOK
  <2>1. 0 \in 0..MaxSubs /\ sub \in [1..0 -> Sub]
    BY SubscriptionAssumption DEF SubInit
  <2>q. QED
    BY <1>1, <2>1 DEF SubInit, SubTypeOK
<1>3. \A t \in Topics : Opening(t) = {}
  BY <1>1 DEF Opening
<1>q. QED
  BY <1>1, <1>2, <1>3 DEF SubInit, SubInv, MapInv, HeldInv, AloneInv, PlaceInv, SubscriberIsFed,
     SilentAfterUnsubscribe, Topics

-----------------------------------------------------------------------------
(* A subscription that is answered at once.                                *)

LEMMA EnterKeeps ==
    ASSUME SubInv, NEW c \in Clients, NEW t \in Topics,
           Make(c, t, "open"), Keep(<<c, t>>, fresh),
           t \in Containers => stream[t] # 0,
           named' \subseteq Processes, UNCHANGED <<connected, stream, live, overlapped>>
    PROVE  SubInv'
<1> USE DEF SubInv
<1>1. /\ fresh \in Subs /\ fresh # 0 /\ fresh \notin made /\ 0 \notin made
      /\ made' = made \cup {fresh}
      /\ sub'[fresh] = [client |-> c, topic |-> t, pc |-> "open"]
      /\ \A m \in made : sub'[m] = sub[m]
      /\ sub \in [made -> Sub] /\ sub' \in [made' -> Sub]
      /\ \E n \in 0..MaxSubs : sub' \in [1..n -> Sub]
      /\ cbs' = [cbs EXCEPT ![t] = @ \cup {fresh}]
      /\ asked' = [asked EXCEPT ![<<c, t>>] = TRUE]
  BY Made, Numbers
<1>2. /\ unsub' = [unsub EXCEPT ![<<c, t>>] = fresh]
      /\ slipped' = slipped \cup ({unsub[<<c, t>>]} \ {0})
  BY DEF Keep
<1>3. <<c, t>> \in Clients \X Topics
  OBVIOUS
<1>4. SubTypeOK'
  <2>1. cbs' \in [Topics -> SUBSET made'] /\ \A s \in Topics : \A n \in cbs'[s] : sub'[n].topic = s
    BY <1>1 DEF SubTypeOK
  <2>2. stream' \in [Containers -> {0} \cup made']
    BY <1>1 DEF SubTypeOK
  <2>3. live' \subseteq {n \in made' : sub'[n].topic \in Containers /\ sub'[n].pc = "open"}
    BY <1>1 DEF SubTypeOK
  <2>4. unsub' \in [Clients \X Topics -> {0} \cup made']
    BY <1>1, <1>2, <1>3 DEF SubTypeOK
  <2>5. \A ct \in Clients \X Topics :
           unsub'[ct] # 0 => <<sub'[unsub'[ct]].client, sub'[unsub'[ct]].topic>> = ct
    BY <1>1, <1>2, <1>3 DEF SubTypeOK
  <2>6. asked' \in [Clients \X Topics -> BOOLEAN]
    BY <1>1, <1>3 DEF SubTypeOK
  <2>7. slipped' \subseteq made'
    <3>1. unsub[<<c, t>>] \in {0} \cup made /\ slipped \subseteq made
      BY <1>3 DEF SubTypeOK
    <3>q. QED
      BY <1>1, <1>2, <3>1
  <2>8. connected' \subseteq Clients /\ overlapped' \subseteq Containers
    BY DEF SubTypeOK
  <2>q. QED
    BY <1>1, <2>1, <2>2, <2>3, <2>4, <2>5, <2>6, <2>7, <2>8 DEF SubTypeOK
<1>5. \A s \in Topics : Opening(s)' = Opening(s)
  BY <1>1 DEF Opening
<1>6. MapInv'
  BY <1>1 DEF MapInv, SubTypeOK
<1>7. HeldInv'
  <2> SUFFICES ASSUME NEW s \in Topics, NEW n \in cbs'[s], sub'[n].pc # "opening"
               PROVE  unsub'[Key(n)'] = n \/ n \in slipped'
    BY DEF HeldInv
  <2>1. CASE n = fresh
    BY <1>1, <1>2, <1>3, <2>1 DEF Key, SubTypeOK
  <2>2. CASE n # fresh
    <3>1. n \in cbs[s] /\ n \in made
      BY <1>1, <2>2 DEF SubTypeOK
    <3>2. Key(n)' = Key(n) /\ Key(n) \in Clients \X Topics
      BY <1>1, <3>1 DEF Key, Sub
    <3>3. unsub[Key(n)] = n \/ n \in slipped
      BY <1>1, <3>1 DEF HeldInv
    <3>q. QED
      BY <1>1, <1>2, <1>3, <3>1, <3>2, <3>3 DEF SubTypeOK
  <2>q. QED
    BY <2>1, <2>2
<1>8. AloneInv'
  <2> SUFFICES ASSUME NEW s \in Containers, s \notin overlapped
               PROVE  /\ \A n \in Opening(s)' : n \in cbs'[s] /\ stream'[s] = 0
                      /\ \A n, m \in Opening(s)' : n = m
                      /\ \A n \in live' : sub'[n].topic = s =>
                            stream'[s] = n /\ cbs'[s] # {}
    BY DEF AloneInv
  <2>1. s \in Topics /\ cbs[s] \subseteq cbs'[s]
    BY <1>1 DEF Topics, SubTypeOK
  <2>2. \A n \in live : n \in made
    BY DEF SubTypeOK
  <2>q. QED
    BY <1>1, <1>5, <2>1, <2>2 DEF AloneInv
<1>9. PlaceInv'
  BY <1>1, <1>2, <1>3 DEF PlaceInv, SubTypeOK
<1>10. SubscriberIsFed'
  <2> SUFFICES ASSUME NEW s \in Containers, NEW n \in cbs'[s], sub'[n].pc = "open"
               PROVE  stream'[s] \in live' /\ sub'[stream'[s]].topic = s
    BY DEF SubscriberIsFed
  <2>1. s \in Topics /\ live \subseteq made
    BY DEF Topics, SubTypeOK
  <2>2. CASE n = fresh
    <3>1. s = t
      BY <1>1, <1>4, <2>1, <2>2 DEF SubTypeOK
    <3>q. QED
      BY <1>1, <2>1, <3>1 DEF MapInv
  <2>3. CASE n # fresh
    <3>1. n \in cbs[s] /\ n \in made
      BY <1>1, <2>1, <2>3 DEF SubTypeOK
    <3>q. QED
      BY <1>1, <2>1, <3>1 DEF SubscriberIsFed
  <2>q. QED
    BY <2>2, <2>3
<1>11. SilentAfterUnsubscribe'
  <2> SUFFICES ASSUME NEW d \in Clients, NEW s \in Topics, ~asked'[<<d, s>>],
                      NEW m \in cbs'[s], sub'[m].client = d
               PROVE  m \in slipped'
    BY DEF SilentAfterUnsubscribe
  <2>1. /\ asked \in [Clients \X Topics -> BOOLEAN]
        /\ cbs \in [Topics -> SUBSET made]
    BY DEF SubTypeOK
  <2>2. <<d, s>> # <<c, t>> /\ ~asked[<<d, s>>]
    BY <1>1, <1>3, <2>1
  <2>3. m # fresh
    BY <1>1, <1>3, <2>1, <2>2
  <2>4. m \in cbs[s] /\ m \in made
    BY <1>1, <1>3, <2>1, <2>3
  <2>q. QED
    BY <1>1, <1>2, <2>2, <2>4 DEF SilentAfterUnsubscribe
<1>q. QED
  BY <1>4, <1>6, <1>7, <1>8, <1>9, <1>10, <1>11

LEMMA LogsKeep ==
    ASSUME SubInv, NEW c \in Clients, NEW p \in Processes, SubscribeLogs(c, p)
    PROVE  SubInv'
<1>1. p \in Topics /\ p \notin Containers
  BY SubscriptionAssumption DEF Topics
<1>2. named' \subseteq Processes
  BY DEF SubscribeLogs, SubInv, SubTypeOK
<1>q. QED
  BY <1>1, <1>2, EnterKeeps DEF SubscribeLogs, fresh

LEMMA JoinKeeps ==
    ASSUME SubInv, NEW c \in Clients, NEW t \in Containers, JoinStream(c, t)
    PROVE  SubInv'
<1>1. t \in Topics
  BY DEF Topics
<1>2. named' \subseteq Processes
  BY DEF JoinStream, SubInv, SubTypeOK
<1>q. QED
  BY <1>1, <1>2, EnterKeeps DEF JoinStream, fresh

-----------------------------------------------------------------------------
(* A stream that is opened.                                                *)

LEMMA AskKeeps ==
    ASSUME SubInv, NEW c \in Clients, NEW t \in Containers, AskForStream(c, t)
    PROVE  SubInv'
<1> USE DEF SubInv
<1>1. t \in Topics /\ Make(c, t, "opening")
  BY DEF AskForStream, Topics
<1>2. /\ fresh \in Subs /\ fresh # 0 /\ fresh \notin made /\ 0 \notin made
      /\ made' = made \cup {fresh}
      /\ sub'[fresh] = [client |-> c, topic |-> t, pc |-> "opening"]
      /\ \A m \in made : sub'[m] = sub[m]
      /\ sub \in [made -> Sub] /\ sub' \in [made' -> Sub]
      /\ \E n \in 0..MaxSubs : sub' \in [1..n -> Sub]
      /\ cbs' = [cbs EXCEPT ![t] = @ \cup {fresh}]
      /\ asked' = [asked EXCEPT ![<<c, t>>] = TRUE]
  BY <1>1, Made, Numbers
<1>3. /\ stream[t] = 0
      /\ overlapped' = overlapped \cup (IF Opening(t) = {} THEN {} ELSE {t})
      /\ UNCHANGED <<connected, named, stream, live, unsub, slipped>>
  BY DEF AskForStream
<1>4. <<c, t>> \in Clients \X Topics
  BY <1>1
<1>5. SubTypeOK'
  <2>1. cbs' \in [Topics -> SUBSET made'] /\ \A s \in Topics : \A n \in cbs'[s] : sub'[n].topic = s
    <3>1. /\ cbs \in [Topics -> SUBSET made]
          /\ \A s \in Topics : \A n \in cbs[s] : sub[n].topic = s
      BY DEF SubTypeOK
    <3>q. QED
      BY <1>1, <1>2, <3>1
  <2>2. stream' \in [Containers -> {0} \cup made']
    BY <1>2, <1>3 DEF SubTypeOK
  <2>3. live' \subseteq {n \in made' : sub'[n].topic \in Containers /\ sub'[n].pc = "open"}
    BY <1>2, <1>3 DEF SubTypeOK
  <2>4. unsub' \in [Clients \X Topics -> {0} \cup made']
    <3>1. unsub \in [Clients \X Topics -> {0} \cup made]
      BY DEF SubTypeOK
    <3>q. QED
      BY <1>2, <1>3, <3>1
  <2>5. \A ct \in Clients \X Topics :
           unsub'[ct] # 0 => <<sub'[unsub'[ct]].client, sub'[unsub'[ct]].topic>> = ct
    <3>1. \A ct \in Clients \X Topics :
             /\ unsub[ct] \in {0} \cup made
             /\ unsub[ct] # 0 => <<sub[unsub[ct]].client, sub[unsub[ct]].topic>> = ct
      BY DEF SubTypeOK
    <3>q. QED
      BY <1>2, <1>3, <3>1
  <2>6. asked' \in [Clients \X Topics -> BOOLEAN]
    BY <1>2, <1>4 DEF SubTypeOK
  <2>7. slipped' \subseteq made'
    BY <1>2, <1>3 DEF SubTypeOK
  <2>8. connected' \subseteq Clients /\ overlapped' \subseteq Containers /\ named' \subseteq Processes
    BY <1>3 DEF SubTypeOK
  <2>q. QED
    BY <1>2, <2>1, <2>2, <2>3, <2>4, <2>5, <2>6, <2>7, <2>8 DEF SubTypeOK
<1>6. MapInv'
  BY <1>2, <1>3 DEF MapInv, SubTypeOK
<1>7. HeldInv'
  <2> SUFFICES ASSUME NEW s \in Topics, NEW n \in cbs'[s], sub'[n].pc # "opening"
               PROVE  unsub'[Key(n)'] = n \/ n \in slipped'
    BY DEF HeldInv
  <2>1. n # fresh
    BY <1>2
  <2>2. n \in cbs[s] /\ n \in made
    BY <1>2, <2>1 DEF SubTypeOK
  <2>3. Key(n)' = Key(n)
    BY <1>2, <2>2 DEF Key
  <2>q. QED
    BY <1>2, <1>3, <2>2, <2>3 DEF HeldInv
<1>8. AloneInv'
  <2> SUFFICES ASSUME NEW s \in Containers, s \notin overlapped'
               PROVE  /\ \A n \in Opening(s)' : n \in cbs'[s] /\ stream'[s] = 0
                      /\ \A n, m \in Opening(s)' : n = m
                      /\ \A n \in live' : sub'[n].topic = s =>
                            stream'[s] = n /\ cbs'[s] # {}
    BY DEF AloneInv
  <2>1. /\ s \in Topics /\ cbs[s] \subseteq cbs'[s] /\ s \notin overlapped
        /\ \A n \in live : n \in made
    BY <1>2, <1>3 DEF Topics, SubTypeOK
  <2>2. CASE s = t
    <3>1. Opening(t) = {}
      BY <1>3, <2>2
    <3>2. Opening(t)' = {fresh}
      BY <1>2, <3>1 DEF Opening
    <3>3. fresh \in cbs'[t]
      BY <1>1, <1>2 DEF SubTypeOK
    <3>q. QED
      BY <1>2, <1>3, <2>1, <2>2, <3>2, <3>3 DEF AloneInv
  <2>3. CASE s # t
    <3>1. Opening(s)' = Opening(s)
      BY <1>2, <2>3 DEF Opening
    <3>q. QED
      BY <1>2, <1>3, <2>1, <3>1 DEF AloneInv
  <2>q. QED
    BY <2>2, <2>3
<1>9. PlaceInv'
  <2>1. unsub \in [Clients \X Topics -> {0} \cup made]
    BY DEF SubTypeOK
  <2>q. QED
    BY <1>1, <1>2, <1>3, <2>1 DEF PlaceInv
<1>10. SubscriberIsFed'
  <2> SUFFICES ASSUME NEW s \in Containers, NEW n \in cbs'[s], sub'[n].pc = "open"
               PROVE  stream'[s] \in live' /\ sub'[stream'[s]].topic = s
    BY DEF SubscriberIsFed
  <2>1. s \in Topics /\ live \subseteq made /\ n # fresh
    BY <1>2 DEF Topics, SubTypeOK
  <2>2. n \in cbs[s] /\ n \in made
    BY <1>2, <2>1 DEF SubTypeOK
  <2>q. QED
    BY <1>2, <1>3, <2>1, <2>2 DEF SubscriberIsFed
<1>11. SilentAfterUnsubscribe'
  <2> SUFFICES ASSUME NEW d \in Clients, NEW s \in Topics, ~asked'[<<d, s>>],
                      NEW m \in cbs'[s], sub'[m].client = d
               PROVE  m \in slipped'
    BY DEF SilentAfterUnsubscribe
  <2>1. /\ asked \in [Clients \X Topics -> BOOLEAN]
        /\ cbs \in [Topics -> SUBSET made]
    BY DEF SubTypeOK
  <2>2. <<d, s>> # <<c, t>> /\ ~asked[<<d, s>>]
    BY <1>2, <1>4, <2>1
  <2>3. m # fresh
    BY <1>2, <1>4, <2>1, <2>2
  <2>4. m \in cbs[s] /\ m \in made
    BY <1>2, <1>4, <2>1, <2>3
  <2>q. QED
    BY <1>2, <1>3, <2>2, <2>4 DEF SilentAfterUnsubscribe
<1>q. QED
  BY <1>5, <1>6, <1>7, <1>8, <1>9, <1>10, <1>11

\* What the answer of docker does to the subscriptions.
LEMMA Answered ==
    ASSUME SubTypeOK, NEW n \in made, NEW pc \in {"open", "failed"},
           sub' = [sub EXCEPT ![n].pc = pc]
    PROVE  /\ made' = made /\ 0 \notin made
           /\ sub \in [made -> Sub] /\ sub' \in [made -> Sub]
           /\ \E k \in 0..MaxSubs : sub' \in [1..k -> Sub]
           /\ sub'[n].pc = pc
           /\ \A m \in made : /\ sub'[m].client = sub[m].client
                              /\ sub'[m].topic = sub[m].topic
                              /\ m # n => sub'[m] = sub[m]
           /\ \A m \in made : Key(m)' = Key(m) /\ Key(m) \in Clients \X Topics
           /\ \A t \in Topics : Opening(t)' = Opening(t) \ {n}
<1>1. sub \in [made -> Sub] /\ 0 \notin made
  BY Numbers
<1>2. PICK k \in 0..MaxSubs : sub \in [1..k -> Sub]
  BY DEF SubTypeOK
<1>3. [sub[n] EXCEPT !.pc = pc] \in Sub /\ [sub[n] EXCEPT !.pc = pc].pc = pc
  BY <1>1 DEF Sub
<1>4. sub' = [sub EXCEPT ![n] = [sub[n] EXCEPT !.pc = pc]]
  OBVIOUS
<1>5. sub' \in [made -> Sub] /\ sub' \in [1..k -> Sub] /\ made' = made
  BY <1>1, <1>2, <1>3, <1>4 DEF made
<1>6. \A m \in made : /\ sub'[m].client = sub[m].client
                      /\ sub'[m].topic = sub[m].topic
                      /\ m # n => sub'[m] = sub[m]
  BY <1>1 DEF Sub
<1>7. sub'[n].pc = pc
  BY <1>1, <1>3, <1>4
<1>8. \A m \in made : Key(m)' = Key(m) /\ Key(m) \in Clients \X Topics
  BY <1>1, <1>6 DEF Key, Sub
<1>9. \A t \in Topics : Opening(t)' = Opening(t) \ {n}
  BY <1>5, <1>6, <1>7 DEF Opening
<1>q. QED
  BY <1>1, <1>5, <1>6, <1>7, <1>8, <1>9

LEMMA OpenedKeeps == ASSUME SubInv, NEW n \in made, Opened(n) PROVE SubInv'
<1> USE DEF SubInv
<1> DEFINE t == sub[n].topic
<1>1. /\ made' = made /\ 0 \notin made
      /\ sub \in [made -> Sub] /\ sub' \in [made -> Sub]
      /\ \E k \in 0..MaxSubs : sub' \in [1..k -> Sub]
      /\ sub'[n].pc = "open"
      /\ \A m \in made : /\ sub'[m].client = sub[m].client
                         /\ sub'[m].topic = sub[m].topic
                         /\ m # n => sub'[m] = sub[m]
      /\ \A m \in made : Key(m)' = Key(m) /\ Key(m) \in Clients \X Topics
      /\ \A s \in Topics : Opening(s)' = Opening(s) \ {n}
  BY Answered DEF Opened
<1>2. /\ sub[n].pc = "opening"
      /\ live' = live \cup {n}
      /\ stream' = [stream EXCEPT ![t] = n]
      /\ unsub' = [unsub EXCEPT ![Key(n)] = n]
      /\ slipped' = slipped \cup ({unsub[Key(n)]} \ {0})
      /\ UNCHANGED <<connected, named, asked, cbs, overlapped>>
  BY DEF Opened, Keep, kept
<1>3. t \in Containers
  BY <1>2 DEF PlaceInv
<1>4. t \in Topics /\ Key(n) \in Clients \X Topics /\ Key(n) = <<sub[n].client, t>>
  BY <1>1, <1>3 DEF Topics, Key
<1>5. SubTypeOK'
  <2>1. cbs' \in [Topics -> SUBSET made'] /\ \A s \in Topics : \A m \in cbs'[s] : sub'[m].topic = s
    <3>1. /\ cbs \in [Topics -> SUBSET made]
          /\ \A s \in Topics : \A m \in cbs[s] : sub[m].topic = s
      BY DEF SubTypeOK
    <3>q. QED
      BY <1>1, <1>2, <3>1
  <2>2. stream' \in [Containers -> {0} \cup made']
    <3>1. stream \in [Containers -> {0} \cup made]
      BY DEF SubTypeOK
    <3>q. QED
      BY <1>1, <1>2, <1>3, <3>1
  <2>3. live' \subseteq {m \in made' : sub'[m].topic \in Containers /\ sub'[m].pc = "open"}
    <3>1. live \subseteq {m \in made : sub[m].topic \in Containers /\ sub[m].pc = "open"}
      BY DEF SubTypeOK
    <3>q. QED
      BY <1>1, <1>2, <1>3, <3>1
  <2>4. unsub' \in [Clients \X Topics -> {0} \cup made']
    <3>1. unsub \in [Clients \X Topics -> {0} \cup made]
      BY DEF SubTypeOK
    <3>q. QED
      BY <1>1, <1>2, <1>4, <3>1
  <2>5. \A ct \in Clients \X Topics :
           unsub'[ct] # 0 => <<sub'[unsub'[ct]].client, sub'[unsub'[ct]].topic>> = ct
    <3>1. unsub \in [Clients \X Topics -> {0} \cup made]
      BY DEF SubTypeOK
    <3>2. \A ct \in Clients \X Topics :
             unsub[ct] # 0 => <<sub[unsub[ct]].client, sub[unsub[ct]].topic>> = ct
      BY DEF SubTypeOK
    <3> SUFFICES ASSUME NEW ct \in Clients \X Topics, unsub'[ct] # 0
                 PROVE  <<sub'[unsub'[ct]].client, sub'[unsub'[ct]].topic>> = ct
      OBVIOUS
    <3>3. CASE ct = Key(n)
      BY <1>1, <1>2, <1>4, <3>1, <3>3
    <3>4. CASE ct # Key(n)
      <4>1. unsub'[ct] = unsub[ct] /\ unsub[ct] \in made
        BY <1>2, <3>1, <3>4
      <4>q. QED
        BY <1>1, <3>2, <4>1
    <3>q. QED
      BY <3>3, <3>4
  <2>6. asked' \in [Clients \X Topics -> BOOLEAN] /\ named' \subseteq Processes
    BY <1>2 DEF SubTypeOK
  <2>7. slipped' \subseteq made'
    <3>1. unsub[Key(n)] \in {0} \cup made /\ slipped \subseteq made
      BY <1>4 DEF SubTypeOK
    <3>q. QED
      BY <1>1, <1>2, <3>1
  <2>8. connected' \subseteq Clients /\ overlapped' \subseteq Containers
    BY <1>2 DEF SubTypeOK
  <2>q. QED
    BY <1>1, <2>1, <2>2, <2>3, <2>4, <2>5, <2>6, <2>7, <2>8 DEF SubTypeOK
<1>6. MapInv'
  <2> SUFFICES ASSUME NEW s \in Containers, stream'[s] # 0
               PROVE  stream'[s] \in live' /\ sub'[stream'[s]].topic = s
    BY DEF MapInv
  <2>1. stream \in [Containers -> {0} \cup made]
    BY DEF SubTypeOK
  <2>2. CASE s = t
    BY <1>1, <1>2, <1>3, <2>1, <2>2
  <2>3. CASE s # t
    BY <1>1, <1>2, <1>3, <2>1, <2>3 DEF MapInv
  <2>q. QED
    BY <2>2, <2>3
<1>7. HeldInv'
  <2> SUFFICES ASSUME NEW s \in Topics, NEW m \in cbs'[s], sub'[m].pc # "opening"
               PROVE  unsub'[Key(m)'] = m \/ m \in slipped'
    BY DEF HeldInv
  <2>1. /\ m \in cbs[s] /\ m \in made /\ Key(m)' = Key(m) /\ Key(m) \in Clients \X Topics
        /\ unsub \in [Clients \X Topics -> {0} \cup made]
    BY <1>1, <1>2 DEF SubTypeOK
  <2>2. CASE m = n
    BY <1>2, <2>1, <2>2
  <2>3. CASE m # n
    <3>1. unsub[Key(m)] = m \/ m \in slipped
      BY <1>1, <2>1, <2>3 DEF HeldInv
    <3>q. QED
      BY <1>1, <1>2, <2>1, <3>1
  <2>q. QED
    BY <2>2, <2>3
<1>8. AloneInv'
  <2> SUFFICES ASSUME NEW s \in Containers, s \notin overlapped
               PROVE  /\ \A m \in Opening(s)' : m \in cbs'[s] /\ stream'[s] = 0
                      /\ \A m, k \in Opening(s)' : m = k
                      /\ \A m \in live' : sub'[m].topic = s =>
                            stream'[s] = m /\ cbs'[s] # {}
    BY <1>2 DEF AloneInv
  <2>1. /\ s \in Topics /\ \A m \in live : m \in made
        /\ stream \in [Containers -> {0} \cup made]
    BY DEF Topics, SubTypeOK
  <2>2. CASE s = t
    <3>1. n \in Opening(s)
      BY <1>2, <2>2 DEF Opening
    <3>2. /\ n \in cbs[s] /\ stream[s] = 0
          /\ \A m \in Opening(s) : m = n
          /\ \A m \in live : sub[m].topic # s
      BY <1>1, <2>1, <3>1 DEF AloneInv
    <3>q. QED
      BY <1>1, <1>2, <2>1, <2>2, <3>2
  <2>3. CASE s # t
    <3>1. Opening(s)' = Opening(s) /\ stream'[s] = stream[s] /\ cbs'[s] = cbs[s]
      BY <1>1, <1>2, <2>1, <2>3 DEF Opening
    <3>2. \A m \in live' : sub'[m].topic = s => m \in live /\ sub[m].topic = s
      BY <1>1, <1>2, <2>1, <2>3
    <3>q. QED
      BY <2>1, <3>1, <3>2 DEF AloneInv
  <2>q. QED
    BY <2>2, <2>3
<1>9. PlaceInv'
  <2>1. unsub \in [Clients \X Topics -> {0} \cup made]
    BY DEF SubTypeOK
  <2>q. QED
    BY <1>1, <1>2, <1>4, <2>1 DEF PlaceInv
<1>10. SubscriberIsFed'
  <2> SUFFICES ASSUME NEW s \in Containers, NEW m \in cbs'[s], sub'[m].pc = "open"
               PROVE  stream'[s] \in live' /\ sub'[stream'[s]].topic = s
    BY DEF SubscriberIsFed
  <2>1. /\ s \in Topics /\ live \subseteq made /\ stream \in [Containers -> {0} \cup made]
        /\ m \in cbs[s] /\ m \in made /\ sub[m].topic = s
    BY <1>2 DEF Topics, SubTypeOK
  <2>2. CASE s = t
    BY <1>1, <1>2, <1>3, <2>1, <2>2
  <2>3. CASE s # t
    BY <1>1, <1>2, <2>1, <2>3 DEF SubscriberIsFed
  <2>q. QED
    BY <2>2, <2>3
<1>11. SilentAfterUnsubscribe'
  BY <1>1, <1>2 DEF SilentAfterUnsubscribe, SubTypeOK
<1>q. QED
  BY <1>5, <1>6, <1>7, <1>8, <1>9, <1>10, <1>11

LEMMA FailsKeep == ASSUME SubInv, NEW n \in made, OpenFails(n) PROVE SubInv'
<1> USE DEF SubInv
<1>1. /\ made' = made /\ 0 \notin made
      /\ sub \in [made -> Sub] /\ sub' \in [made -> Sub]
      /\ \E k \in 0..MaxSubs : sub' \in [1..k -> Sub]
      /\ sub'[n].pc = "failed"
      /\ \A m \in made : /\ sub'[m].client = sub[m].client
                         /\ sub'[m].topic = sub[m].topic
                         /\ m # n => sub'[m] = sub[m]
      /\ \A m \in made : Key(m)' = Key(m) /\ Key(m) \in Clients \X Topics
      /\ \A s \in Topics : Opening(s)' = Opening(s) \ {n}
  BY Answered DEF OpenFails
<1>2. /\ sub[n].pc = "opening"
      /\ slipped' = slipped \cup {n}
      /\ UNCHANGED <<connected, named, asked, cbs, stream, live, unsub, overlapped>>
  BY DEF OpenFails, kept
<1>3. /\ live \subseteq {m \in made : sub[m].topic \in Containers /\ sub[m].pc = "open"}
      /\ stream \in [Containers -> {0} \cup made]
      /\ unsub \in [Clients \X Topics -> {0} \cup made]
      /\ cbs \in [Topics -> SUBSET made]
  BY DEF SubTypeOK
<1>4. SubTypeOK'
  <2>1. live' \subseteq {m \in made' : sub'[m].topic \in Containers /\ sub'[m].pc = "open"}
    BY <1>1, <1>2, <1>3
  <2>2. \A ct \in Clients \X Topics :
           unsub'[ct] # 0 => <<sub'[unsub'[ct]].client, sub'[unsub'[ct]].topic>> = ct
    <3> SUFFICES ASSUME NEW ct \in Clients \X Topics, unsub[ct] # 0
                 PROVE  <<sub'[unsub[ct]].client, sub'[unsub[ct]].topic>> = ct
      BY <1>2
    <3>1. unsub[ct] \in made
      BY <1>3
    <3>2. <<sub[unsub[ct]].client, sub[unsub[ct]].topic>> = ct
      BY DEF SubTypeOK
    <3>q. QED
      BY <1>1, <3>1, <3>2
  <2>3. \A s \in Topics : \A m \in cbs'[s] : sub'[m].topic = s
    <3>1. \A s \in Topics : \A m \in cbs[s] : sub[m].topic = s
      BY DEF SubTypeOK
    <3>q. QED
      BY <1>1, <1>2, <1>3, <3>1
  <2>4. /\ connected' \subseteq Clients /\ named' \subseteq Processes
        /\ asked' \in [Clients \X Topics -> BOOLEAN]
        /\ slipped' \subseteq made' /\ overlapped' \subseteq Containers
    BY <1>1, <1>2 DEF SubTypeOK
  <2>5. /\ cbs' \in [Topics -> SUBSET made'] /\ stream' \in [Containers -> {0} \cup made']
        /\ unsub' \in [Clients \X Topics -> {0} \cup made']
    BY <1>1, <1>2, <1>3
  <2>q. QED
    BY <1>1, <2>1, <2>2, <2>3, <2>4, <2>5 DEF SubTypeOK
<1>5. n \notin live
  BY <1>2, <1>3
<1>6. MapInv'
  BY <1>1, <1>2, <1>3 DEF MapInv
<1>7. HeldInv'
  BY <1>1, <1>2, <1>3 DEF HeldInv
<1>8. AloneInv'
  <2> SUFFICES ASSUME NEW s \in Containers, s \notin overlapped
               PROVE  /\ \A m \in Opening(s)' : m \in cbs'[s] /\ stream'[s] = 0
                      /\ \A m, k \in Opening(s)' : m = k
                      /\ \A m \in live' : sub'[m].topic = s =>
                            stream'[s] = m /\ cbs'[s] # {}
    BY <1>2 DEF AloneInv
  <2>1. s \in Topics /\ Opening(s)' \subseteq Opening(s)
    BY <1>1 DEF Topics
  <2>q. QED
    BY <1>1, <1>2, <1>3, <2>1 DEF AloneInv
<1>9. PlaceInv'
  BY <1>1, <1>2, <1>3 DEF PlaceInv
<1>10. SubscriberIsFed'
  BY <1>1, <1>2, <1>3 DEF SubscriberIsFed, Topics
<1>11. SilentAfterUnsubscribe'
  BY <1>1, <1>2, <1>3 DEF SilentAfterUnsubscribe
<1>q. QED
  BY <1>4, <1>6, <1>7, <1>8, <1>9, <1>10, <1>11

-----------------------------------------------------------------------------
(* A stream that is left or ends.                                          *)

LEMMA UnsubscribeKeeps ==
    ASSUME SubInv, NEW c \in Clients, NEW t \in Topics, Unsubscribe(c, t)
    PROVE  SubInv'
<1> USE DEF SubInv
<1> DEFINE u == unsub[<<c, t>>]
<1>1. /\ cbs' = [cbs EXCEPT ![t] = @ \ {u}]
      /\ stream' = IF LastOut(t, u) THEN [stream EXCEPT ![t] = 0] ELSE stream
      /\ live' = IF LastOut(t, u) THEN live \ {stream[t]} ELSE live
      /\ unsub' = [unsub EXCEPT ![<<c, t>>] = 0]
      /\ asked' = [asked EXCEPT ![<<c, t>>] = FALSE]
      /\ slipped' = slipped \cup OpeningFor(c, t)
      /\ UNCHANGED <<connected, sub, named, overlapped>>
  BY DEF Unsubscribe
<1>2. /\ made' = made /\ 0 \notin made /\ sub \in [made -> Sub]
      /\ <<c, t>> \in Clients \X Topics
  BY <1>1, Numbers DEF made
<1>3. /\ live \subseteq {m \in made : sub[m].topic \in Containers /\ sub[m].pc = "open"}
      /\ stream \in [Containers -> {0} \cup made]
      /\ unsub \in [Clients \X Topics -> {0} \cup made]
      /\ cbs \in [Topics -> SUBSET made]
      /\ \A s \in Topics : \A m \in cbs[s] : sub[m].topic = s
      /\ asked \in [Clients \X Topics -> BOOLEAN]
      /\ slipped \subseteq made
  BY DEF SubTypeOK
<1>4. /\ OpeningFor(c, t) = {m \in made : /\ sub[m].topic = t /\ sub[m].pc = "opening"
                                        /\ sub[m].client = c}
      /\ \A s \in Topics : Opening(s)' = Opening(s)
  BY <1>1, <1>2 DEF OpeningFor, Opening
<1>5. \A s \in Topics : cbs'[s] \subseteq cbs[s] /\ (s # t => cbs'[s] = cbs[s])
  BY <1>1, <1>3
<1>6. cbs'[t] = cbs[t] \ {u} /\ u \in {0} \cup made
  BY <1>1, <1>2, <1>3
<1>7. ~LastOut(t, u) => (t \in Containers /\ cbs[t] # {} => cbs'[t] # {})
  <2>1. cbs[t] \subseteq made
    BY <1>3
  <2>2. u = 0 => cbs'[t] = cbs[t]
    BY <1>2, <1>6, <2>1
  <2>q. QED
    BY <1>6, <2>2 DEF LastOut
<1>8. LastOut(t, u) => t \in Containers /\ cbs'[t] = {}
  BY <1>6 DEF LastOut
<1>9. SubTypeOK'
  <2>1. cbs' \in [Topics -> SUBSET made']
    BY <1>1, <1>2, <1>3
  <2>2. stream' \in [Containers -> {0} \cup made'] /\ live' \subseteq live
    BY <1>1, <1>2, <1>3
  <2>3. unsub' \in [Clients \X Topics -> {0} \cup made']
    BY <1>1, <1>2, <1>3
  <2>4. \A ct \in Clients \X Topics :
           unsub'[ct] # 0 => <<sub'[unsub'[ct]].client, sub'[unsub'[ct]].topic>> = ct
    <3>1. \A ct \in Clients \X Topics : unsub'[ct] # 0 => unsub'[ct] = unsub[ct]
      BY <1>1, <1>2, <1>3
    <3>q. QED
      BY <1>1, <3>1 DEF SubTypeOK
  <2>5. asked' \in [Clients \X Topics -> BOOLEAN] /\ slipped' \subseteq made'
    BY <1>1, <1>2, <1>3, <1>4
  <2>6. \A s \in Topics : \A m \in cbs'[s] : sub'[m].topic = s
    BY <1>1, <1>3, <1>5
  <2>q. QED
    BY <1>1, <1>2, <1>3, <2>1, <2>2, <2>3, <2>4, <2>5, <2>6 DEF SubTypeOK
<1>10. MapInv'
  <2> SUFFICES ASSUME NEW s \in Containers, stream'[s] # 0
               PROVE  stream'[s] \in live' /\ sub'[stream'[s]].topic = s
    BY DEF MapInv
  <2>1. stream'[s] = stream[s]
    BY <1>1, <1>3
  <2>2. stream[s] \in live /\ sub[stream[s]].topic = s
    BY <2>1 DEF MapInv
  <2>3. LastOut(t, u) => s # t /\ stream[t] # stream[s]
    <3> SUFFICES ASSUME LastOut(t, u) PROVE s # t /\ stream[t] # stream[s]
      OBVIOUS
    <3>1. s # t /\ t \in Containers
      BY <1>1, <1>3, <1>8
    <3>2. stream[t] # 0 => sub[stream[t]].topic = t
      BY <3>1 DEF MapInv
    <3>q. QED
      BY <1>2, <1>3, <2>2, <3>1, <3>2
  <2>q. QED
    BY <1>1, <2>1, <2>2, <2>3
<1>11. HeldInv'
  <2> SUFFICES ASSUME NEW s \in Topics, NEW m \in cbs'[s], sub'[m].pc # "opening"
               PROVE  unsub'[Key(m)'] = m \/ m \in slipped'
    BY DEF HeldInv
  <2>1. m \in cbs[s] /\ m \in made /\ Key(m)' = Key(m) /\ Key(m) \in Clients \X Topics
    BY <1>1, <1>2, <1>3, <1>5 DEF Key, Sub
  <2>2. unsub[Key(m)] = m \/ m \in slipped
    BY <1>1, <2>1 DEF HeldInv
  <2>3. unsub[Key(m)] = m => Key(m) # <<c, t>>
    BY <1>3, <1>6, <2>1 DEF Key
  <2>q. QED
    BY <1>1, <1>3, <2>1, <2>2, <2>3
<1>12. AloneInv'
  <2> SUFFICES ASSUME NEW s \in Containers, s \notin overlapped
               PROVE  /\ \A m \in Opening(s)' : m \in cbs'[s] /\ stream'[s] = 0
                      /\ \A m, k \in Opening(s)' : m = k
                      /\ \A m \in live' : sub'[m].topic = s =>
                            stream'[s] = m /\ cbs'[s] # {}
    BY <1>1 DEF AloneInv
  <2>1. s \in Topics /\ Opening(s)' = Opening(s)
    BY <1>4 DEF Topics
  <2>2. stream[s] = 0 => stream'[s] = 0
    BY <1>1, <1>3
  <2>3. \A m \in Opening(s)' : m \in cbs'[s]
    <3>1. \A m \in Opening(s) : m \in cbs[s] /\ m \in made /\ sub[m].pc = "opening"
      BY DEF AloneInv, Opening
    <3>2. u # 0 => sub[u].pc = "open"
      BY <1>2 DEF PlaceInv
    <3>q. QED
      BY <1>2, <1>5, <1>6, <2>1, <3>1, <3>2
  <2>4. \A m \in live' : sub'[m].topic = s => stream'[s] = m /\ cbs'[s] # {}
    <3> SUFFICES ASSUME NEW m \in live', sub'[m].topic = s
                 PROVE  stream'[s] = m /\ cbs'[s] # {}
      OBVIOUS
    <3>1. m \in live /\ sub[m].topic = s /\ stream[s] = m /\ cbs[s] # {}
      BY <1>1 DEF AloneInv
    <3>2. LastOut(t, u) => s # t
      BY <1>1, <3>1
    <3>q. QED
      BY <1>1, <1>3, <1>5, <1>7, <2>1, <3>1, <3>2
  <2>q. QED
    BY <2>1, <2>2, <2>3, <2>4 DEF AloneInv
<1>13. PlaceInv'
  BY <1>1, <1>2, <1>3 DEF PlaceInv
<1>14. SubscriberIsFed'
  <2> SUFFICES ASSUME NEW s \in Containers, NEW m \in cbs'[s], sub'[m].pc = "open"
               PROVE  stream'[s] \in live' /\ sub'[stream'[s]].topic = s
    BY DEF SubscriberIsFed
  <2>1. s \in Topics /\ m \in cbs[s]
    BY <1>5 DEF Topics
  <2>2. stream[s] \in live /\ sub[stream[s]].topic = s
    BY <1>1, <2>1 DEF SubscriberIsFed
  <2>3. stream'[s] # 0
    BY <1>1, <1>2, <1>3, <1>8, <2>2
  <2>q. QED
    BY <1>10, <2>3 DEF MapInv
<1>15. SilentAfterUnsubscribe'
  <2> SUFFICES ASSUME NEW d \in Clients, NEW s \in Topics, ~asked'[<<d, s>>],
                      NEW m \in cbs'[s], sub'[m].client = d
               PROVE  m \in slipped'
    BY DEF SilentAfterUnsubscribe
  <2>1. m \in cbs[s] /\ m \in made /\ sub[m].client = d /\ sub[m].topic = s
    BY <1>1, <1>3, <1>5
  <2>2. CASE <<d, s>> = <<c, t>>
    <3>1. d = c /\ s = t /\ m # u /\ Key(m) = <<c, t>>
      BY <1>6, <2>1, <2>2 DEF Key
    <3>2. sub[m].pc = "opening" \/ m \in slipped
      BY <2>1, <3>1 DEF HeldInv
    <3>q. QED
      BY <1>1, <1>4, <2>1, <3>1, <3>2
  <2>3. CASE <<d, s>> # <<c, t>>
    <3>1. ~asked[<<d, s>>]
      BY <1>1, <1>3, <2>3
    <3>q. QED
      BY <1>1, <2>1, <3>1 DEF SilentAfterUnsubscribe
  <2>q. QED
    BY <2>2, <2>3
<1>q. QED
  BY <1>9, <1>10, <1>11, <1>12, <1>13, <1>14, <1>15

LEMMA EndsKeep == ASSUME SubInv, NEW n \in live, StreamEnds(n) PROVE SubInv'
<1> USE DEF SubInv
<1> DEFINE t == sub[n].topic
<1>1. /\ live' = live \ {n}
      /\ stream' = [stream EXCEPT ![t] = 0]
      /\ cbs' = [cbs EXCEPT ![t] = {}]
      /\ UNCHANGED <<connected, named, asked, sub, unsub, slipped, overlapped>>
  BY DEF StreamEnds, kept
<1>2. /\ live \subseteq {m \in made : sub[m].topic \in Containers /\ sub[m].pc = "open"}
      /\ stream \in [Containers -> {0} \cup made]
      /\ cbs \in [Topics -> SUBSET made]
      /\ t \in Containers /\ t \in Topics
      /\ made' = made /\ 0 \notin made
  BY <1>1, Numbers DEF SubTypeOK, Topics, made
<1>3. \A s \in Topics : cbs'[s] \subseteq cbs[s] /\ (s # t => cbs'[s] = cbs[s])
  BY <1>1, <1>2
<1>4. cbs'[t] = {} /\ stream'[t] = 0
  BY <1>1, <1>2
<1>5. \A s \in Containers : s # t => stream'[s] = stream[s]
  BY <1>1, <1>2
<1>6. SubTypeOK'
  <2>1. cbs' \in [Topics -> SUBSET made'] /\ stream' \in [Containers -> {0} \cup made']
    BY <1>1, <1>2
  <2>q. QED
    BY <1>1, <1>2, <1>3, <2>1 DEF SubTypeOK
<1>7. MapInv'
  BY <1>1, <1>2, <1>4, <1>5 DEF MapInv
<1>8. HeldInv'
  <2>1. \A s \in Topics : \A m \in cbs[s] : Key(m)' = Key(m)
    BY <1>1 DEF Key
  <2>q. QED
    BY <1>1, <1>3, <2>1 DEF HeldInv
<1>9. AloneInv'
  <2> SUFFICES ASSUME NEW s \in Containers, s \notin overlapped
               PROVE  /\ \A m \in Opening(s)' : m \in cbs'[s] /\ stream'[s] = 0
                      /\ \A m, k \in Opening(s)' : m = k
                      /\ \A m \in live' : sub'[m].topic = s =>
                            stream'[s] = m /\ cbs'[s] # {}
    BY <1>1 DEF AloneInv
  <2>1. s \in Topics /\ Opening(s)' = Opening(s)
    BY <1>1, <1>2 DEF Topics, Opening
  <2>2. CASE s = t
    <3>1. \A m \in live : sub[m].topic = s => m = n
      BY <2>2 DEF AloneInv
    <3>2. Opening(s) = {}
      <4> SUFFICES ASSUME NEW m \in Opening(s) PROVE FALSE
        OBVIOUS
      <4>1. stream[s] = 0 /\ stream[s] = n
        BY <2>2 DEF AloneInv
      <4>q. QED
        BY <1>2, <4>1
    <3>q. QED
      BY <1>1, <2>1, <2>2, <3>1, <3>2
  <2>3. CASE s # t
    BY <1>1, <1>3, <1>5, <2>1, <2>3 DEF AloneInv
  <2>q. QED
    BY <2>2, <2>3
<1>10. PlaceInv'
  BY <1>1, <1>2 DEF PlaceInv
<1>11. SubscriberIsFed'
  <2> SUFFICES ASSUME NEW s \in Containers, NEW m \in cbs'[s], sub'[m].pc = "open"
               PROVE  stream'[s] \in live' /\ sub'[stream'[s]].topic = s
    BY DEF SubscriberIsFed
  <2>1. s \in Topics /\ s # t /\ m \in cbs[s]
    BY <1>3, <1>4 DEF Topics
  <2>q. QED
    BY <1>1, <1>5, <2>1 DEF SubscriberIsFed
<1>12. SilentAfterUnsubscribe'
  BY <1>1, <1>3 DEF SilentAfterUnsubscribe
<1>q. QED
  BY <1>6, <1>7, <1>8, <1>9, <1>10, <1>11, <1>12

\* What leaves everything alone but the sockets that are connected.
LEMMA QuietKeeps ==
    ASSUME SubInv, connected' \subseteq Clients,
           UNCHANGED <<sub, cbs, named, stream, live, unsub, asked, slipped, overlapped>>
    PROVE  SubInv'
<1>1. /\ made' = made
      /\ \A n \in made : Key(n)' = Key(n)
      /\ \A t \in Topics : Opening(t)' = Opening(t)
  BY DEF made, Key, Opening
<1>2. SubTypeOK'
  BY <1>1 DEF SubInv, SubTypeOK
<1>3. MapInv' /\ SubscriberIsFed' /\ SilentAfterUnsubscribe' /\ PlaceInv'
  BY <1>1 DEF SubInv, MapInv, SubscriberIsFed, SilentAfterUnsubscribe, PlaceInv
<1>4. HeldInv'
  BY <1>1 DEF SubInv, HeldInv, Key
<1>5. AloneInv'
  BY <1>1 DEF SubInv, AloneInv, Opening, made
<1>q. QED
  BY <1>2, <1>3, <1>4, <1>5 DEF SubInv

-----------------------------------------------------------------------------

LEMMA SubscriptionsStep == ASSUME SubInv, [SubNext]_subVars PROVE SubInv'
<1>1. ASSUME NEW c \in Clients, NEW p \in Processes, SubscribeLogs(c, p) PROVE SubInv'
  BY <1>1, LogsKeep
<1>2. ASSUME NEW c \in Clients, NEW t \in Containers, JoinStream(c, t) PROVE SubInv'
  BY <1>2, JoinKeeps
<1>3. ASSUME NEW c \in Clients, NEW t \in Containers, AskForStream(c, t) PROVE SubInv'
  BY <1>3, AskKeeps
<1>4. ASSUME NEW n \in made, Opened(n) PROVE SubInv'
  BY <1>4, OpenedKeeps
<1>5. ASSUME NEW n \in made, OpenFails(n) PROVE SubInv'
  BY <1>5, FailsKeep
<1>6. ASSUME NEW c \in Clients, NEW t \in Topics, Unsubscribe(c, t) PROVE SubInv'
  BY <1>6, UnsubscribeKeeps
<1>7. ASSUME NEW n \in live, StreamEnds(n) PROVE SubInv'
  BY <1>7, EndsKeep
<1>8. ASSUME NEW c \in Clients, Disconnect(c) PROVE SubInv'
  <2>1. connected' \subseteq Clients
    BY <1>8 DEF Disconnect, SubInv, SubTypeOK
  <2>q. QED
    BY <1>8, <2>1, QuietKeeps DEF Disconnect
<1>9. CASE UNCHANGED subVars
  <2>1. connected' \subseteq Clients
    BY <1>9 DEF subVars, SubInv, SubTypeOK
  <2>q. QED
    BY <1>9, <2>1, QuietKeeps DEF subVars
<1>q. QED
  BY <1>1, <1>2, <1>3, <1>4, <1>5, <1>6, <1>7, <1>8, <1>9 DEF SubNext

\* The invariant of the event subscriptions, whatever the order of subscribe,
\* unsubscribe, openings, output and disconnects.
THEOREM SubscriptionsInvariant ==
    SubSpec => []SubInv
BY SubscriptionsInit, SubscriptionsStep, PTL DEF SubSpec

\* Type correctness of the event subscriptions.
THEOREM SubscriptionsTypeCorrect ==
    SubSpec => []SubTypeOK
<1>1. SubInv => SubTypeOK
  BY DEF SubInv
<1>q. QED
  BY <1>1, SubscriptionsInvariant, PTL

\* Whoever is entered and has been answered is fed by a stream that docker sends
\* and the map holds, for any number of clients that join and leave.
THEOREM SubscriptionsFed ==
    SubSpec => []SubscriberIsFed
<1>1. SubInv => SubscriberIsFed
  BY DEF SubInv
<1>q. QED
  BY <1>1, SubscriptionsInvariant, PTL

\* A client that asked for nothing more of a topic hears no more of it, but for
\* a callback whose unsubscriber was lost.
THEOREM SubscriptionsSilent ==
    SubSpec => []SilentAfterUnsubscribe
<1>1. SubInv => SilentAfterUnsubscribe
  BY DEF SubInv
<1>q. QED
  BY <1>1, SubscriptionsInvariant, PTL

\* The last one out closes the stream: one that runs is read by somebody who can
\* leave it, who waits for it, or whose unsubscriber was lost.
THEOREM SubscriptionsReader ==
    SubSpec => []StreamHasReader
<1>1. SubInv => StreamHasReader
  <2> SUFFICES ASSUME SubInv, NEW n \in live, sub[n].topic \notin overlapped
               PROVE  \E m \in cbs[sub[n].topic] :
                         sub[m].pc = "opening" \/ unsub[Key(m)] = m \/ m \in slipped
    BY DEF StreamHasReader
  <2>1. sub[n].topic \in Containers /\ sub[n].topic \in Topics
    BY DEF SubInv, SubTypeOK, Topics
  <2>2. cbs[sub[n].topic] # {}
    BY <2>1 DEF SubInv, AloneInv
  <2>q. QED
    BY <2>1, <2>2 DEF SubInv, HeldInv
<1>q. QED
  BY <1>1, SubscriptionsInvariant, PTL

\* A container has one stream, unless openings of it overlapped.
THEOREM SubscriptionsOneStream ==
    SubSpec => []OneStream
<1>1. SubInv => OneStream
  BY DEF SubInv, SubTypeOK, AloneInv, OneStream
<1>q. QED
  BY <1>1, SubscriptionsInvariant, PTL

=============================================================================
