----------------------------- MODULE RemoteKeys -----------------------------
(***************************************************************************)
(* Commands on managed servers (MultiServerService): each writes the key   *)
(* of its server to a file of the temporary directory, runs ssh with it,   *)
(* and removes it.  The file is named by the millisecond, so executions of *)
(* one millisecond share it.  The rows of servers and keys change under    *)
(* them.  One action is the code between two awaits.                       *)
(*                                                                         *)
(* ssh is external: it reads the file some time after it was started, and  *)
(* may fail at any time.  A key's text never changes.  pingServer, which   *)
(* uses no key, and the columns that name a host are left out.             *)
(***************************************************************************)
EXTENDS Naturals

CONSTANTS
    Servers,  \* ManagedServer ids
    Keys,     \* SshKey ids
    NoKey,    \* sshKeyId = null; no file
    Execs,    \* executions at a time
    NoServer,
    MaxTime   \* bound: milliseconds

ASSUME RemoteAssumption ==
    /\ NoKey \notin Keys
    /\ NoServer \notin Servers
    /\ Servers \cap Keys = {}
    /\ MaxTime \in Nat

Times == 0..MaxTime
MaybeKey == Keys \cup {NoKey}

VARIABLES
    servers,  \* ManagedServer rows
    keyOf,    \* ManagedServer.sshKeyId
    keys,     \* SshKey rows
    used,     \* ids ever created; cuid() gives none twice
    dropping, \* keys whose deletion has passed its check
    now,      \* Date.now()
    file,     \* ssh_key_<ms>: the key in the file
    exec,     \* getRemoteMetrics and executeRemoteCommand
    left,     \* history: files a failed or interrupted execution left
    rushed    \* history: keys given to a server while being deleted

vars == <<servers, keyOf, keys, used, dropping, now, file, exec, left, rushed>>
rows == <<servers, keyOf, keys, used, dropping, rushed>>

\* want: sshKeyId as it was read; read: what ssh found in the file; shared:
\* another execution had the file name at the same time; gone: the key's row
\* was not found; exit: how ssh ended; out: what the caller is told.
Exec == [pc: {"idle", "find", "key", "ssh", "run", "done"},
         kind: {"metrics", "command"}, server: Servers \cup {NoServer},
         want: MaybeKey, name: Times, read: MaybeKey, shared: BOOLEAN,
         gone: BOOLEAN, exit: {"ok", "failed"},
         out: {"none", "missing", "reachable", "unreachable", "success", "failed"}]
IdleExec == [pc |-> "idle", kind |-> "metrics", server |-> NoServer, want |-> NoKey,
             name |-> 0, read |-> NoKey, shared |-> FALSE, gone |-> FALSE,
             exit |-> "failed", out |-> "none"]

TypeOK ==
    /\ used \subseteq Servers \cup Keys
    /\ servers \subseteq Servers \cap used
    /\ keys \subseteq Keys \cap used
    /\ keyOf \in [Servers -> MaybeKey]
    /\ \A s \in servers : keyOf[s] \in keys \cup {NoKey}
    /\ dropping \subseteq Keys
    /\ now \in Times
    /\ file \in [Times -> MaybeKey]
    /\ exec \in [Execs -> Exec]
    /\ left \subseteq Times
    /\ rushed \subseteq Keys

Init ==
    /\ servers = {}
    /\ keyOf = [s \in Servers |-> NoKey]
    /\ keys = {}
    /\ used = {}
    /\ dropping = {}
    /\ now = 0
    /\ file = [n \in Times |-> NoKey]
    /\ exec = [i \in Execs |-> IdleExec]
    /\ left = {}
    /\ rushed = {}

-----------------------------------------------------------------------------
(* Rows.                                                                   *)

CreateKey(k) ==
    /\ k \notin used
    /\ used' = used \cup {k}
    /\ keys' = keys \cup {k}
    /\ UNCHANGED <<servers, keyOf, dropping, now, file, exec, left, rushed>>

\* createServer and updateServer: what they check before the write changes
\* nothing, and the write is refused when the key has gone since.
WriteServer(s, k) ==
    /\ s \in servers \/ s \notin used
    /\ k \in keys \cup {NoKey}
    /\ servers' = servers \cup {s}
    /\ used' = used \cup {s}
    /\ keyOf' = [keyOf EXCEPT ![s] = k]
    /\ rushed' = rushed \cup ({k} \cap dropping)
    /\ UNCHANGED <<keys, dropping, now, file, exec, left>>

DeleteServer(s) ==
    /\ s \in servers
    /\ servers' = servers \ {s}
    /\ keyOf' = [keyOf EXCEPT ![s] = NoKey]
    /\ UNCHANGED <<keys, used, dropping, now, file, exec, left, rushed>>

\* Mutant: a key that is in use may be deleted.
CheckKeyExists(k) ==
    /\ k \in keys
    /\ dropping' = dropping \cup {k}
    /\ UNCHANGED <<servers, keyOf, keys, used, now, file, exec, left, rushed>>

\* deleteSshKey refuses a key that a server uses.
CheckKey(k) ==
    /\ k \in keys
    /\ \A s \in servers : keyOf[s] # k
    /\ dropping' = dropping \cup {k}
    /\ UNCHANGED <<servers, keyOf, keys, used, now, file, exec, left, rushed>>

\* By now a server may have it: the database sets its sshKeyId to null.
DropKey(k) ==
    /\ k \in dropping
    /\ keys' = keys \ {k}
    /\ dropping' = dropping \ {k}
    /\ keyOf' = [s \in Servers |-> IF keyOf[s] = k THEN NoKey ELSE keyOf[s]]
    /\ UNCHANGED <<servers, used, now, file, exec, left, rushed>>

-----------------------------------------------------------------------------
(* Executions.                                                             *)

Answer(x, exit, out) ==
    [IdleExec EXCEPT !.pc = "done", !.kind = x.kind, !.exit = exit, !.out = out]
Told(i, exit, out) ==
    exec' = [exec EXCEPT ![i] = Answer(@, exit, out)]
Free(i) == exec[i].pc \in {"idle", "done"}
Asking(kind, s) == [IdleExec EXCEPT !.pc = "find", !.kind = kind, !.server = s]

\* A request for a server that is listed, or was.
Start(i, kind, s) ==
    /\ Free(i)
    /\ s \in used
    /\ exec' = [exec EXCEPT ![i] = Asking(kind, s)]
    /\ UNCHANGED <<rows, now, file, left>>

\* getAllRemoteMetrics starts one on every active server at once.
StartAll(active) ==
    /\ active # {}
    /\ \E f \in [active -> Execs] :
          /\ \A s, t \in active : f[s] = f[t] => s = t
          /\ \A s \in active : Free(f[s])
          /\ exec' = [i \in Execs |->
                IF \E s \in active : f[s] = i
                  THEN Asking("metrics", CHOOSE s \in active : f[s] = i)
                  ELSE exec[i]]
    /\ UNCHANGED <<rows, now, file, left>>

Named(x, k, b) ==
    [x EXCEPT !.server = NoServer, !.pc = IF k = NoKey THEN "run" ELSE "key",
              !.want = k, !.name = now, !.shared = b]
Shared(x) == [x EXCEPT !.shared = TRUE]
Spawned(x, found) == [x EXCEPT !.pc = "ssh", !.gone = ~found]
Authenticated(x, k) == [x EXCEPT !.pc = "run", !.read = k]

\* The executions that have the file name of this millisecond.
Sharing(i) ==
    {j \in Execs \ {i} : exec[j].pc \in {"key", "ssh", "run"} /\ exec[j].want # NoKey
                         /\ exec[j].name = now}

\* The server's row; the file gets its name.  Without a key ssh starts at once.
Find(i) ==
    /\ exec[i].pc = "find"
    /\ LET s == exec[i].server
           k == keyOf[s]
           J == IF k = NoKey THEN {} ELSE Sharing(i)
       IN IF s \notin servers
            THEN Told(i, "failed", "missing")
            ELSE exec' = [j \in Execs |-> IF j = i THEN Named(exec[i], k, J # {})
                                          ELSE IF j \in J THEN Shared(exec[j])
                                          ELSE exec[j]]
    /\ UNCHANGED <<rows, now, file, left>>

\* Mutant: a file of that name is not written again.
WriteKeyOnce(i) ==
    /\ exec[i].pc = "key"
    /\ LET x == exec[i]
           found == x.want \in keys
       IN /\ file' = IF found /\ file[x.name] = NoKey THEN [file EXCEPT ![x.name] = x.want]
                     ELSE file
          /\ exec' = [exec EXCEPT ![i] = Spawned(x, found)]
    /\ UNCHANGED <<rows, now, left>>

\* The key's row; the file is written and ssh started.  Without the row ssh is
\* given the name of a file that this execution did not write.
WriteKey(i) ==
    /\ exec[i].pc = "key"
    /\ LET x == exec[i]
           found == x.want \in keys
       IN /\ file' = IF found THEN [file EXCEPT ![x.name] = x.want] ELSE file
          /\ exec' = [exec EXCEPT ![i] = Spawned(x, found)]
    /\ UNCHANGED <<rows, now, left>>

SshReads(i) ==
    /\ exec[i].pc = "ssh"
    /\ exec' = [exec EXCEPT ![i] = Authenticated(@, file[exec[i].name])]
    /\ UNCHANGED <<rows, now, file, left>>

Unlinked(i) == [file EXCEPT ![exec[i].name] = NoKey]

\* getRemoteMetrics after ssh answered.  The quotes of its script end those of
\* the command line, so what comes back is no JSON: JSON.parse throws, after the
\* file was removed, and the catch says that the server cannot be reached.
MetricsArrive(i) ==
    /\ exec[i].pc = "run" /\ exec[i].kind = "metrics"
    /\ Told(i, "ok", "unreachable")
    /\ file' = IF exec[i].want # NoKey THEN Unlinked(i) ELSE file
    /\ UNCHANGED <<rows, now, left>>

\* The catch does not remove the file.
MetricsFail(i) ==
    /\ exec[i].pc \in {"ssh", "run"} /\ exec[i].kind = "metrics"
    /\ Told(i, "failed", "unreachable")
    /\ left' = left \cup (IF exec[i].want = NoKey THEN {} ELSE {exec[i].name})
    /\ UNCHANGED <<rows, now, file>>

\* Mutant: the file of a failed command stays.
CommandEndsKeepsFile(i) ==
    /\ exec[i].pc \in {"ssh", "run"} /\ exec[i].kind = "command"
    /\ \/ /\ exec[i].pc = "run" /\ Told(i, "ok", "success")
          /\ file' = IF exec[i].want # NoKey THEN Unlinked(i) ELSE file
       \/ Told(i, "failed", "failed") /\ file' = file
    /\ UNCHANGED <<rows, now, left>>

\* executeRemoteCommand removes the file in "finally", if it is there.
CommandEnds(i) ==
    /\ exec[i].pc \in {"ssh", "run"} /\ exec[i].kind = "command"
    /\ \/ exec[i].pc = "run" /\ Told(i, "ok", "success")
       \/ Told(i, "failed", "failed")
    /\ file' = IF exec[i].want # NoKey THEN Unlinked(i) ELSE file
    /\ UNCHANGED <<rows, now, left>>

-----------------------------------------------------------------------------
Tick ==
    /\ now < MaxTime
    /\ now' = now + 1
    /\ UNCHANGED <<rows, file, exec, left>>

\* The process ends: requests and executions are gone, the files stay.
Crash ==
    /\ exec' = [i \in Execs |-> IdleExec]
    /\ dropping' = {}
    /\ rushed' = {}
    /\ left' = left \cup {exec[i].name : i \in {j \in Execs : exec[j].pc \in {"ssh", "run"}}}
    /\ UNCHANGED <<servers, keyOf, keys, used, now, file>>

Next ==
    \/ \E k \in Keys : CreateKey(k)
    \/ \E s \in Servers, k \in MaybeKey : WriteServer(s, k)
    \/ \E s \in Servers : DeleteServer(s)
    \/ \E k \in Keys : CheckKey(k)
    \/ \E k \in Keys : DropKey(k)
    \/ \E i \in Execs, kind \in {"metrics", "command"}, s \in Servers : Start(i, kind, s)
    \/ \E active \in SUBSET servers : StartAll(active)
    \/ \E i \in Execs : Find(i)
    \/ \E i \in Execs : WriteKey(i)
    \/ \E i \in Execs : SshReads(i)
    \/ \E i \in Execs : MetricsArrive(i)
    \/ \E i \in Execs : MetricsFail(i)
    \/ \E i \in Execs : CommandEnds(i)
    \/ Tick
    \/ Crash

Spec == Init /\ [][Next]_vars

-----------------------------------------------------------------------------
(* Properties.                                                             *)

Undisturbed(x) == x.want # NoKey /\ ~x.shared /\ ~x.gone

\* A command is run with the key of its own server, although the file is known
\* by its time alone and other executions write and remove files meanwhile;
\* only executions of one millisecond can take each other's key.
OwnKey ==
    \A i \in Execs :
        exec[i].pc = "run" /\ Undisturbed(exec[i]) => exec[i].read = exec[i].want

\* A private key lies on the disk only while a command uses it: a file without
\* one was left by metrics that failed or by a process that ended.
KeyFilesGo ==
    \A n \in Times \ left : file[n] # NoKey =>
        \E i \in Execs : exec[i].pc \in {"ssh", "run"} /\ exec[i].name = n
                          /\ exec[i].want # NoKey

\* A server loses its key only by a request of its own, unless it was given the
\* key while that was being deleted (deleteSshKey looks, then deletes).
KeyLossNeedsRace ==
    [][\A s \in servers \cap servers' :
          keyOf[s] # NoKey /\ keyOf'[s] = NoKey =>
              keyOf[s] \in rushed \/ WriteServer(s, NoKey)]_vars

-----------------------------------------------------------------------------
(* The inductive invariant behind these properties.                        *)

\* What an execution has read, given the files f and the time t.
Sound(x, f, t) ==
    /\ x.pc \in {"idle", "find", "done"} => x.want = NoKey
    /\ x.pc \in {"key", "ssh"} => x.want # NoKey
    /\ x.want # NoKey => x.name <= t
    /\ x.pc \in {"ssh", "run"} /\ Undisturbed(x) => f[x.name] = x.want
    /\ x.pc = "run" /\ Undisturbed(x) => x.read = x.want

SoundInv == \A i \in Execs : Sound(exec[i], file, now)

\* Two executions with one file name know it.
SharedInv ==
    \A i, j \in Execs :
        (i # j /\ exec[i].want # NoKey /\ exec[j].want # NoKey /\ exec[i].name = exec[j].name)
            => exec[i].shared

\* A server has a key that is being deleted only if it was given it since.
RushedInv == \A s \in servers : keyOf[s] \in dropping => keyOf[s] \in rushed

RemoteInv == SoundInv /\ SharedInv /\ KeyFilesGo /\ RushedInv

-----------------------------------------------------------------------------
\* "View CPU, RAM, disk, and network metrics from any managed server"
\* (MULTI_SERVER.md): a server whose ssh answered is shown as reachable.
ReachableAlways ==
    \A i \in Execs :
        exec[i].pc = "done" /\ exec[i].kind = "metrics" /\ exec[i].exit = "ok"
            => exec[i].out = "reachable"

=============================================================================
