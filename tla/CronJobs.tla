------------------------------ MODULE CronJobs ------------------------------
(***************************************************************************)
(* CronJobsService: a cron job is a row, and either a repeatable job of    *)
(* the BullMQ queue or a line in the crontab of a managed server.  An      *)
(* update or a delete changes the queue or the crontab first and the row   *)
(* last, one await after the other; nothing compares them later, not even  *)
(* the start of the process.  A request is the list of operations that it  *)
(* has still to do.                                                        *)
(*                                                                         *)
(* removeQueueJob is none of them: the id it looks for is in no repeatable *)
(* job that the BullMQ of the lock file lists, and its errors are only     *)
(* logged.  A crontab is changed by "(crontab -l ...) | crontab -" over    *)
(* ssh: it is read, and written back as a whole a moment later.            *)
(***************************************************************************)
EXTENDS Naturals, Sequences

CONSTANTS
    Requesters,  \* requests that can be under way at once
    Ids,         \* ids of cron jobs, each used once
    Servers,     \* managed servers
    Local,       \* the ops server
    Exprs,       \* cron expressions
    BadExprs,    \* the ones that neither BullMQ nor crontab accepts
    Cmds,        \* commands
    Keep,        \* a field that an update leaves out
    None, Many,  \* a crontab without a line of the job, and with several
    Creates,     \* rows that users ask for
    Edits,       \* updates that users ask for
    MaxRequests  \* bound: requests made in all

Switch == {"on", "off"} \* enabled, in a row or in an update

Row == [state: {"none", "there", "gone"}, at: Servers \cup {Local},
        expr: Exprs, cmd: Cmds, enabled: Switch]
Edit == [expr: Exprs \cup {Keep}, cmd: Cmds \cup {Keep}, enabled: Switch \cup {Keep}]
Line == [expr: Exprs, cmd: Cmds]
Crontab == [Ids -> Line \cup {None, Many}]

ASSUME CronAssumption ==
    /\ BadExprs \subseteq Exprs
    /\ Exprs # {} /\ Cmds # {} /\ None \notin Ids
    /\ Local \notin Servers
    /\ Keep \notin Exprs \cup Cmds \cup Switch
    /\ None # Many /\ None \notin Line /\ Many \notin Line
    /\ Creates \subseteq {r \in Row : r.state = "there"}
    /\ Edits \subseteq Edit
    /\ MaxRequests \in Nat

VARIABLES
    row,     \* CronJob rows
    servers, \* ManagedServer rows
    queue,   \* repeatable jobs, whose key is made of id and pattern
    tab,     \* crontabs of the servers
    request, \* the requests
    made,    \* how many there have been
    reading, \* requests whose command has read its crontab and not yet written it
    out,     \* what it will write
    overlap, \* history: jobs with two requests at a time, the command that a
             \* request has left behind counting as one
    crowded, \* history: servers with two commands at a time
    failed   \* history: jobs with a request that failed or died

history == <<overlap, crowded, failed>>
cronVars == <<row, servers, queue, tab, request, made, reading, out, history>>

Operations == {"append", "clear", "add", "save", "delete"}

\* expr, cmd: what append and add install; set: the fields that save writes.
Request == [id: Ids \cup {None}, todo: Seq(Operations), expr: Exprs, cmd: Cmds, set: Edit]

CronTypeOK ==
    /\ row \in [Ids -> Row]
    /\ servers \subseteq Servers
    /\ queue \subseteq [id: Ids, expr: Exprs]
    /\ tab \in [Servers -> Crontab]
    /\ request \in [Requesters -> Request]
    /\ made \in 0..MaxRequests
    /\ reading \subseteq Requesters
    /\ out \in [Requesters -> Crontab]
    /\ overlap \subseteq Ids /\ crowded \subseteq Servers /\ failed \subseteq Ids
    /\ \A u \in Requesters : request[u].todo # <<>> =>
          request[u].id \in Ids /\ row[request[u].id].state # "none"

Nothing == [expr |-> Keep, cmd |-> Keep, enabled |-> Keep]
Empty == [i \in Ids |-> None]
SomeExpr == CHOOSE e \in Exprs : TRUE
SomeCmd == CHOOSE c \in Cmds : TRUE
NoRow == [state |-> "none", at |-> Local, expr |-> SomeExpr, cmd |-> SomeCmd, enabled |-> "off"]
NoRequest == [id |-> None, todo |-> <<>>, expr |-> SomeExpr, cmd |-> SomeCmd, set |-> Nothing]

CronInit ==
    /\ row = [i \in Ids |-> NoRow]
    /\ servers = Servers
    /\ queue = {}
    /\ tab = [s \in Servers |-> Empty]
    /\ request = [u \in Requesters |-> NoRequest]
    /\ made = 0
    /\ reading = {}
    /\ out = [u \in Requesters |-> Empty]
    /\ overlap = {} /\ crowded = {} /\ failed = {}

-----------------------------------------------------------------------------
(* Requests.                                                               *)

Active(u) == request[u].todo # <<>>
Requested(i) == \E u \in Requesters : Active(u) /\ request[u].id = i
At(u) == row[request[u].id].at
New(value, old) == IF value = Keep THEN old ELSE value

Left(x, todo) == IF todo = <<>> THEN NoRequest ELSE [x EXCEPT !.todo = todo]

\* A request for a job that is in state r and will get the fields in set.
Begin(u, i, r, set, todo) ==
    /\ ~Active(u)
    /\ made < MaxRequests
    /\ made' = made + 1
    /\ request' = [request EXCEPT ![u] =
           Left([id |-> i, todo |-> <<>>, expr |-> New(set.expr, r.expr),
                 cmd |-> New(set.cmd, r.cmd), set |-> set], todo)]
    /\ overlap' = IF Requested(i) THEN overlap \cup {i} ELSE overlap
    /\ UNCHANGED <<servers, queue, tab, reading, out, crowded, failed>>

\* Mutant: the row comes last.
CreateEntersFirst(u, i, r) ==
    /\ row[i].state = "none"
    /\ Begin(u, i, r, Nothing, <<IF r.at # Local THEN "append" ELSE "add", "save">>)
    /\ UNCHANGED row

\* A remote job is entered in its crontab, enabled or not.
Create(u, i, r) ==
    /\ row[i].state = "none"
    /\ row' = [row EXCEPT ![i] = r]
    /\ Begin(u, i, r, Nothing,
             IF r.at # Local THEN <<"append">> ELSE IF r.enabled = "on" THEN <<"add">> ELSE <<>>)

Changed(r, set) == New(set.expr, r.expr) # r.expr \/ New(set.cmd, r.cmd) # r.cmd
Toggled(r, set) == New(set.enabled, r.enabled) # r.enabled

\* Mutant: the old line stays when the expression or the command has changed.
PlanAppends(r, set) ==
    IF r.at # Local
      THEN (IF Changed(r, set) THEN <<"append">> ELSE <<>>) \o <<"save">>
      ELSE <<"add", "save">>

\* Mutant: a local job is entered again only when the update enables it.
PlanAddsEnabled(r, set) ==
    IF r.at # Local
      THEN <<"clear", "append", "save">>
      ELSE (IF set.enabled = "on" THEN <<"add">> ELSE <<>>) \o <<"save">>

\* What update does for a job that was in state r when it was read.
Plan(r, set) ==
    IF r.at # Local
      THEN (IF Changed(r, set) THEN <<"clear", "append">> ELSE <<>>)
           \o (IF ~Toggled(r, set) THEN <<>>
               ELSE IF set.enabled = "on" THEN <<"clear", "append">> ELSE <<"clear">>)
           \o <<"save">>
      ELSE (IF (Changed(r, set) \/ Toggled(r, set)) /\ New(set.enabled, r.enabled) = "on"
              THEN <<"add">> ELSE <<>>)
           \o <<"save">>

\* update and toggle.
Update(u, i, set) ==
    /\ row[i].state = "there"
    /\ Begin(u, i, row[i], set, Plan(row[i], set))
    /\ UNCHANGED row

Delete(u, i) ==
    /\ row[i].state = "there"
    /\ Begin(u, i, row[i], Nothing,
             IF row[i].at # Local THEN <<"clear", "delete">> ELSE <<"delete">>)
    /\ UNCHANGED row

\* MultiServerService.deleteServer; the rows of its cron jobs stay.
DeleteServer(s) ==
    /\ s \in servers
    /\ servers' = servers \ {s}
    /\ UNCHANGED <<row, queue, tab, request, made, reading, out, history>>

-----------------------------------------------------------------------------
(* Operations.                                                             *)

Turn(u, op) == Active(u) /\ Head(request[u].todo) = op
Proceed(u) == request' = [request EXCEPT ![u] = Left(@, Tail(@.todo))]

\* queue.add; a repeatable job with the same key replaces itself.
AddJob(u) ==
    /\ Turn(u, "add")
    /\ request[u].expr \notin BadExprs
    /\ queue' = queue \cup {[id |-> request[u].id, expr |-> request[u].expr]}
    /\ Proceed(u)
    /\ UNCHANGED <<row, servers, tab, made, reading, out, history>>

\* The crontab of the request's server after addRemoteCrontabEntry or
\* removeRemoteCrontabEntry.
Edited(u) ==
    [tab[At(u)] EXCEPT ![request[u].id] =
        IF Head(request[u].todo) = "clear" THEN None
        ELSE IF @ = None THEN [expr |-> request[u].expr, cmd |-> request[u].cmd]
        ELSE Many]

\* The server is looked up and its crontab is read.
ReadTab(u) ==
    /\ Turn(u, "clear") \/ (Turn(u, "append") /\ request[u].expr \notin BadExprs)
    /\ u \notin reading
    /\ At(u) \in servers
    /\ reading' = reading \cup {u}
    /\ out' = [out EXCEPT ![u] = Edited(u)]
    /\ crowded' = IF \E v \in reading : At(v) = At(u) THEN crowded \cup {At(u)} ELSE crowded
    /\ UNCHANGED <<row, servers, queue, tab, request, made, overlap, failed>>

WriteTab(u) ==
    /\ u \in reading
    /\ tab' = [tab EXCEPT ![At(u)] = out[u]]
    /\ reading' = reading \ {u}
    /\ out' = [out EXCEPT ![u] = Empty]
    /\ Proceed(u)
    /\ UNCHANGED <<row, servers, queue, made, history>>

\* removeRemoteCrontabEntry returns when the server is gone.
SkipClear(u) ==
    /\ Turn(u, "clear")
    /\ u \notin reading
    /\ At(u) \notin servers
    /\ Proceed(u)
    /\ UNCHANGED <<row, servers, queue, tab, made, reading, out, history>>

\* Only the fields of the request are written.
Save(u) ==
    LET i == request[u].id
        set == request[u].set
    IN /\ Turn(u, "save")
       /\ row[i].state = "there"
       /\ row' = [row EXCEPT ![i].expr = New(set.expr, @), ![i].cmd = New(set.cmd, @),
                             ![i].enabled = New(set.enabled, @)]
       /\ Proceed(u)
       /\ UNCHANGED <<servers, queue, tab, made, reading, out, history>>

DeleteRow(u) ==
    /\ Turn(u, "delete")
    /\ row[request[u].id].state = "there"
    /\ row' = [row EXCEPT ![request[u].id] = [NoRow EXCEPT !.state = "gone", !.at = At(u)]]
    /\ Proceed(u)
    /\ UNCHANGED <<servers, queue, tab, made, reading, out, history>>

\* Commands that ssh has started, or is about to.
Commands == {u \in Requesters : Active(u) /\ Head(request[u].todo) \in {"append", "clear"}}

\* Requests end before they are done.  The commands of some go on without them,
\* as far as they have not been done, and may still stop.
Abandon(us, orphans) ==
    /\ request' = [u \in Requesters |->
           IF u \in orphans THEN [request[u] EXCEPT !.todo = <<Head(@)>>, !.set = Nothing]
           ELSE IF u \in us THEN NoRequest ELSE request[u]]
    /\ reading' = reading \ (us \ orphans)
    /\ out' = [u \in Requesters |-> IF u \in us \ orphans THEN Empty ELSE out[u]]
    /\ failed' = failed \cup {request[u].id : u \in us}
    /\ UNCHANGED <<row, servers, queue, tab, made, overlap, crowded>>

\* Mutant: an error of ssh is only logged, as one of the queue is.
ThrowGoesOn(u) ==
    /\ u \in Commands
    /\ Proceed(u)
    /\ reading' = reading \ {u}
    /\ out' = [out EXCEPT ![u] = Empty]
    /\ failed' = failed \cup {request[u].id}
    /\ UNCHANGED <<row, servers, queue, tab, made, overlap, crowded>>

\* The request ends with an error: the server is gone, ssh fails, Redis or crontab
\* refuse the expression, the row is gone, the database does not answer.
Throw(u) ==
    /\ Active(u)
    /\ \E orphans \in SUBSET ({u} \cap Commands) : Abandon({u}, orphans)

\* The requests under way are lost; there is nothing like onModuleInit here.
CronCrash ==
    \E orphans \in SUBSET Commands : Abandon({u \in Requesters : Active(u)}, orphans)

-----------------------------------------------------------------------------

CronNext ==
    \/ \E u \in Requesters, i \in Ids :
          \/ \E r \in Creates : Create(u, i, r)
          \/ \E set \in Edits : Update(u, i, set)
          \/ Delete(u, i)
    \/ \E s \in Servers : DeleteServer(s)
    \/ \E u \in Requesters :
          \/ AddJob(u)
          \/ ReadTab(u)
          \/ WriteTab(u)
          \/ SkipClear(u)
          \/ Save(u)
          \/ DeleteRow(u)
          \/ Throw(u)
    \/ CronCrash

CronSpec == CronInit /\ [][CronNext]_cronVars

-----------------------------------------------------------------------------
(* Properties.                                                             *)

Quiet(i) == row[i].state # "none" /\ ~Requested(i) /\ i \notin overlap
LineOf(i) == [expr |-> row[i].expr, cmd |-> row[i].cmd]

\* Between requests that came one after the other and succeeded, an enabled local
\* job fires at the times its row says (and at those of earlier expressions,
\* OldJobIsRemoved).
LocalSynced ==
    \A i \in Ids : Quiet(i) /\ i \notin failed /\ row[i].at = Local =>
        (row[i].state = "there" /\ row[i].enabled = "on" =>
            [id |-> i, expr |-> row[i].expr] \in queue)

\* The same for a crontab, in which a disabled job may still be entered; and a
\* deleted job has no line, whatever failed before.  It needs a server that is
\* still known and on which no two commands met: each writes back the lines of
\* all jobs as it has read them.
RemoteSynced ==
    \A i \in Ids : Quiet(i) /\ row[i].at \in servers \ crowded =>
        LET found == tab[row[i].at][i]
        IN /\ row[i].state = "gone" => found = None
           /\ row[i].state = "there" /\ i \notin failed =>
                 found = LineOf(i) \/ (found = None /\ row[i].enabled = "off")

\* A job is entered twice in a crontab, and would run twice at a time, only when
\* two requests changed it at once or commands met on its server: never after
\* errors, crashes or the loss of a server.
TwiceNeedsOverlap ==
    \A s \in Servers, i \in Ids : tab[s][i] = Many => i \in overlap \/ s \in crowded

\* "Remove old repeatable job and re-add with new config" (cron-jobs.service.ts).
OldJobIsRemoved ==
    \A i \in Ids : Quiet(i) /\ i \notin failed /\ row[i].at = Local =>
        \A j \in queue : j.id = i => j.expr = row[i].expr

\* "keep DB record but no active entry" (cron-jobs.service.ts).
DisabledHasNoEntry ==
    \A i \in Ids :
        Quiet(i) /\ i \notin failed /\ row[i].at \in servers \ crowded /\ row[i].enabled = "off" =>
            tab[row[i].at][i] = None

=============================================================================
