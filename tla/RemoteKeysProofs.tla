-------------------------- MODULE RemoteKeysProofs --------------------------
(***************************************************************************)
(* Theorems about RemoteKeys, for any number of servers, keys and          *)
(* executions, and any time.                                               *)
(***************************************************************************)
EXTENDS RemoteKeys, TLAPS

Inv == TypeOK /\ RemoteInv

-----------------------------------------------------------------------------
(* Values.                                                                 *)

LEMMA Fields ==
    ASSUME NEW x \in Exec
    PROVE  /\ x.pc \in {"idle", "find", "key", "ssh", "run", "done"}
           /\ x.kind \in {"metrics", "command"}
           /\ x.server \in Servers \cup {NoServer}
           /\ x.want \in MaybeKey /\ x.read \in MaybeKey
           /\ x.name \in Times
           /\ x.shared \in BOOLEAN /\ x.gone \in BOOLEAN /\ x.exit \in {"ok", "failed"}
BY DEF Exec

LEMMA IdleFields ==
    /\ IdleExec \in Exec
    /\ IdleExec.pc = "idle" /\ IdleExec.want = NoKey
BY RemoteAssumption DEF IdleExec, Exec, MaybeKey, Times

LEMMA AskingFields ==
    ASSUME NEW kind \in {"metrics", "command"}, NEW s \in Servers
    PROVE  /\ Asking(kind, s) \in Exec
           /\ Asking(kind, s).pc = "find" /\ Asking(kind, s).want = NoKey
BY IdleFields DEF Asking, Exec

LEMMA AnswerFields ==
    ASSUME NEW x \in Exec,
           NEW out \in {"missing", "reachable", "unreachable", "success", "failed"}
    PROVE  /\ \A y \in {Answer(x, "ok", out), Answer(x, "failed", out)} :
                 /\ y \in Exec
                 /\ y.pc = "done" /\ y.want = NoKey /\ y.kind = x.kind
                 /\ y.out = out
           /\ Answer(x, "failed", out).exit = "failed"
<1>1. IdleExec \in Exec /\ IdleExec.want = NoKey
  BY IdleFields
<1>2. /\ Answer(x, "ok", out) \in Exec
      /\ Answer(x, "ok", out).pc = "done" /\ Answer(x, "ok", out).want = NoKey
      /\ Answer(x, "ok", out).kind = x.kind /\ Answer(x, "ok", out).out = out
  BY <1>1 DEF Answer, Exec
<1>3. /\ Answer(x, "failed", out) \in Exec
      /\ Answer(x, "failed", out).pc = "done" /\ Answer(x, "failed", out).want = NoKey
      /\ Answer(x, "failed", out).kind = x.kind /\ Answer(x, "failed", out).out = out
      /\ Answer(x, "failed", out).exit = "failed"
  BY <1>1 DEF Answer, Exec
<1>q. QED
  BY <1>2, <1>3

LEMMA NamedFields ==
    ASSUME NEW x \in Exec, NEW k \in MaybeKey, NEW b \in BOOLEAN, now \in Times
    PROVE  LET y == Named(x, k, b)
           IN /\ y \in Exec
              /\ y.pc = IF k = NoKey THEN "run" ELSE "key"
              /\ y.want = k /\ y.name = now /\ y.shared = b /\ y.gone = x.gone
BY DEF Named, Exec

LEMMA SharedFields ==
    ASSUME NEW x \in Exec
    PROVE  LET y == Shared(x)
           IN /\ y \in Exec
              /\ y.pc = x.pc /\ y.want = x.want /\ y.name = x.name /\ y.shared
              /\ y.gone = x.gone /\ y.kind = x.kind
BY DEF Shared, Exec

LEMMA SpawnedFields ==
    ASSUME NEW x \in Exec, NEW found \in BOOLEAN
    PROVE  LET y == Spawned(x, found)
           IN /\ y \in Exec
              /\ y.pc = "ssh" /\ y.want = x.want /\ y.name = x.name
              /\ y.shared = x.shared /\ y.gone = ~found
BY DEF Spawned, Exec

LEMMA AuthenticatedFields ==
    ASSUME NEW x \in Exec, NEW k \in MaybeKey
    PROVE  LET y == Authenticated(x, k)
           IN /\ y \in Exec
              /\ y.pc = "run" /\ y.want = x.want /\ y.name = x.name /\ y.read = k
              /\ y.shared = x.shared /\ y.gone = x.gone
BY DEF Authenticated, Exec

-----------------------------------------------------------------------------
(* What a step does to the executions.                                     *)

\* A step of one execution, which is about its own file only.
LEMMA OneExec ==
    ASSUME Inv, NEW i \in Execs, NEW y \in Exec,
           exec' = [exec EXCEPT ![i] = y],
           UNCHANGED <<rows, now>>,
           file' \in [Times -> MaybeKey],
           \A n \in Times : n # exec[i].name \/ exec[i].want = NoKey => file'[n] = file[n],
           left' \in SUBSET Times, left \subseteq left',
           Sound(y, file', now),
           y.want # NoKey => /\ y.want = exec[i].want /\ y.name = exec[i].name
                             /\ y.shared = exec[i].shared,
           exec[i].pc \in {"ssh", "run"} /\ exec[i].want # NoKey
               => \/ exec[i].name \in left'
                  \/ file'[exec[i].name] = NoKey
                  \/ y.pc \in {"ssh", "run"} /\ y.want # NoKey,
           exec[i].pc \notin {"ssh", "run"} /\ exec[i].want # NoKey
               => y.pc \in {"ssh", "run"} /\ y.want # NoKey
    PROVE  Inv'
<1>t. /\ exec \in [Execs -> Exec] /\ exec' \in [Execs -> Exec]
      /\ exec'[i] = y
      /\ \A j \in Execs : j # i => exec'[j] = exec[j]
      /\ now' = now /\ now \in Times
  BY DEF Inv, TypeOK
<1>1. TypeOK'
  BY <1>t DEF Inv, TypeOK, rows
<1>2. SoundInv'
  <2>1. SUFFICES ASSUME NEW j \in Execs PROVE Sound(exec'[j], file', now)
    BY <1>t DEF SoundInv
  <2>2. CASE j = i
    BY <1>t, <2>2
  <2>3. CASE j # i
    <3>1. exec'[j] = exec[j] /\ Sound(exec[j], file, now) /\ exec[j].name \in Times
      BY <1>t, <2>3, Fields DEF Inv, RemoteInv, SoundInv
    <3>2. exec[j].want # NoKey /\ ~exec[j].shared => file'[exec[j].name] = file[exec[j].name]
      BY <2>3, <3>1 DEF Inv, RemoteInv, SharedInv
    <3>q. QED
      BY <3>1, <3>2 DEF Sound, Undisturbed
  <2>q. QED
    BY <2>2, <2>3
<1>3. SharedInv'
  BY <1>t DEF Inv, RemoteInv, SharedInv
<1>4. KeyFilesGo'
  <2>1. SUFFICES ASSUME NEW n \in Times, n \notin left', file'[n] # NoKey
                 PROVE  \E j \in Execs : exec'[j].pc \in {"ssh", "run"} /\ exec'[j].name = n
                                           /\ exec'[j].want # NoKey
    BY DEF KeyFilesGo
  <2>2. CASE exec[i].want # NoKey /\ exec[i].name = n
    BY <1>t, <2>1, <2>2
  <2>3. CASE exec[i].want = NoKey \/ exec[i].name # n
    <3>1. file[n] # NoKey /\ n \notin left
      BY <2>1, <2>3
    <3>2. PICK j \in Execs : exec[j].pc \in {"ssh", "run"} /\ exec[j].name = n
                               /\ exec[j].want # NoKey
      BY <3>1 DEF Inv, RemoteInv, KeyFilesGo
    <3>3. j # i
      BY <3>2, <2>3
    <3>q. QED
      BY <1>t, <3>2, <3>3
  <2>q. QED
    BY <2>2, <2>3
<1>5. RushedInv'
  BY DEF Inv, RemoteInv, RushedInv, rows
<1>q. QED
  BY <1>1, <1>2, <1>3, <1>4, <1>5 DEF Inv, RemoteInv

\* A step about rows alone.
LEMMA RowStep ==
    ASSUME Inv, UNCHANGED <<exec, now, file, left>>, TypeOK', RushedInv'
    PROVE  Inv'
BY DEF Inv, RemoteInv, SoundInv, SharedInv, KeyFilesGo

LEMMA Current ==
    ASSUME Inv, NEW i \in Execs
    PROVE  /\ exec[i] \in Exec /\ Sound(exec[i], file, now)
           /\ exec[i].name \in Times /\ exec[i].want \in MaybeKey
           /\ file \in [Times -> MaybeKey] /\ left \in SUBSET Times
           /\ now \in Times
BY Fields DEF Inv, TypeOK, RemoteInv, SoundInv

-----------------------------------------------------------------------------

LEMMA InitInv == ASSUME Init PROVE Inv
<1>1. TypeOK
  BY IdleFields, RemoteAssumption DEF Init, TypeOK, MaybeKey, Times
<1>2. SoundInv
  BY IdleFields DEF Init, SoundInv, Sound
<1>q. QED
  BY <1>1, <1>2, IdleFields DEF Init, Inv, RemoteInv, SharedInv, KeyFilesGo, RushedInv

LEMMA CreateKeyKeeps == ASSUME Inv, NEW k \in Keys, CreateKey(k) PROVE Inv'
<1>1. TypeOK'
  BY DEF CreateKey, Inv, TypeOK
<1>q. QED
  BY <1>1, RowStep DEF CreateKey, Inv, RemoteInv, RushedInv

LEMMA WriteServerKeeps ==
    ASSUME Inv, NEW s \in Servers, NEW k \in MaybeKey, WriteServer(s, k) PROVE Inv'
<1>1. TypeOK'
  BY RemoteAssumption DEF WriteServer, Inv, TypeOK, MaybeKey
<1>2. RushedInv'
  BY DEF WriteServer, Inv, TypeOK, RemoteInv, RushedInv
<1>q. QED
  BY <1>1, <1>2, RowStep DEF WriteServer

LEMMA DeleteServerKeeps == ASSUME Inv, NEW s \in Servers, DeleteServer(s) PROVE Inv'
<1>1. TypeOK'
  BY DEF DeleteServer, Inv, TypeOK, MaybeKey
<1>2. RushedInv'
  BY DEF DeleteServer, Inv, TypeOK, RemoteInv, RushedInv
<1>q. QED
  BY <1>1, <1>2, RowStep DEF DeleteServer

LEMMA CheckKeyKeeps == ASSUME Inv, NEW k \in Keys, CheckKey(k) PROVE Inv'
<1>1. TypeOK'
  BY DEF CheckKey, Inv, TypeOK
<1>2. RushedInv'
  BY DEF CheckKey, Inv, RemoteInv, RushedInv
<1>q. QED
  BY <1>1, <1>2, RowStep DEF CheckKey

LEMMA DropKeyKeeps == ASSUME Inv, NEW k \in Keys, DropKey(k) PROVE Inv'
<1>1. TypeOK'
  BY DEF DropKey, Inv, TypeOK, MaybeKey
<1>2. RushedInv'
  BY RemoteAssumption DEF DropKey, Inv, TypeOK, RemoteInv, RushedInv
<1>q. QED
  BY <1>1, <1>2, RowStep DEF DropKey

LEMMA StartKeeps ==
    ASSUME Inv, NEW i \in Execs, NEW kind \in {"metrics", "command"}, NEW s \in Servers,
           Start(i, kind, s)
    PROVE  Inv'
<1>1. PICK y \in Exec : y = Asking(kind, s) /\ y.pc = "find" /\ y.want = NoKey
  BY AskingFields
<1>2. exec[i].want = NoKey
  BY Current DEF Start, Free, Sound
<1>3. Sound(y, file, now)
  BY <1>1 DEF Sound, Undisturbed
<1>q. QED
  BY <1>1, <1>2, <1>3, Current, OneExec DEF Start

LEMMA StartAllKeeps == ASSUME Inv, NEW active \in SUBSET servers, StartAll(active) PROVE Inv'
<1>1. \A i \in Execs : /\ exec[i] \in Exec /\ Sound(exec[i], file, now)
  BY Current
<1>2. /\ DOMAIN exec' = Execs /\ exec' = [i \in Execs |-> exec'[i]]
      /\ \A i \in Execs :
           \/ exec'[i] = exec[i]
           \/ /\ Free(i)
              /\ exec'[i] \in Exec /\ exec'[i].pc = "find" /\ exec'[i].want = NoKey
  <2>1. PICK f \in [active -> Execs] :
          /\ \A s \in active : Free(f[s])
          /\ exec' = [i \in Execs |->
                IF \E s \in active : f[s] = i
                  THEN Asking("metrics", CHOOSE s \in active : f[s] = i)
                  ELSE exec[i]]
    BY DEF StartAll
  <2>2. active \subseteq Servers
    BY DEF Inv, TypeOK
  <2>3. ASSUME NEW i \in Execs, NEW s \in active, f[s] = i
        PROVE  /\ Free(i)
               /\ exec'[i] \in Exec /\ exec'[i].pc = "find" /\ exec'[i].want = NoKey
    <3>1. PICK t \in active : t = CHOOSE r \in active : f[r] = i
      BY <2>3
    <3>2. exec'[i] = Asking("metrics", t)
      BY <2>1, <2>3, <3>1
    <3>q. QED
      BY <2>1, <2>2, <2>3, <3>2, AskingFields
  <2>4. ASSUME NEW i \in Execs, ~ \E s \in active : f[s] = i PROVE exec'[i] = exec[i]
    BY <2>1, <2>4
  <2>q. QED
    BY <2>1, <2>3, <2>4
<1>3. \A i \in Execs : /\ exec'[i] \in Exec
                       /\ Sound(exec'[i], file, now)
                       /\ exec'[i].want # NoKey => exec'[i] = exec[i]
                       /\ exec'[i] = exec[i] \/ exec[i].want = NoKey
  BY <1>1, <1>2 DEF Free, Sound, Undisturbed
<1>4. UNCHANGED <<rows, now, file, left>>
  BY DEF StartAll
<1>5. TypeOK'
  BY <1>2, <1>3, <1>4 DEF Inv, TypeOK, rows
<1>6. SoundInv'
  BY <1>3, <1>4 DEF SoundInv
<1>7. SharedInv'
  BY <1>3 DEF Inv, RemoteInv, SharedInv
<1>8. KeyFilesGo'
  BY <1>3, <1>4 DEF Inv, RemoteInv, KeyFilesGo
<1>q. QED
  BY <1>4, <1>5, <1>6, <1>7, <1>8 DEF Inv, RemoteInv, RushedInv, rows

LEMMA FindKeeps == ASSUME Inv, NEW i \in Execs, Find(i) PROVE Inv'
<1>1. exec[i] \in Exec /\ exec[i].pc = "find" /\ exec[i].want = NoKey
  BY Current DEF Find, Sound
<1>2. CASE exec[i].server \notin servers
  <2>0. /\ Answer(exec[i], "failed", "missing") \in Exec
        /\ Answer(exec[i], "failed", "missing").pc = "done"
        /\ Answer(exec[i], "failed", "missing").want = NoKey
        /\ Answer(exec[i], "failed", "missing").exit = "failed"
    BY <1>1, AnswerFields
  <2>1. PICK y \in Exec : /\ y = Answer(exec[i], "failed", "missing")
                          /\ y.pc = "done" /\ y.want = NoKey /\ y.exit = "failed"
    BY <2>0
  <2>2. exec' = [exec EXCEPT ![i] = y]
    BY <1>2, <2>1 DEF Find, Told
  <2>3. Sound(y, file, now)
    BY <2>1 DEF Sound, Undisturbed
  <2>q. QED
    BY <1>1, <2>1, <2>2, <2>3, Current, OneExec DEF Find
<1>3. CASE exec[i].server \in servers
  <2>0. PICK k \in MaybeKey : k = keyOf[exec[i].server]
    BY <1>3 DEF Inv, TypeOK
  <2>1. PICK J \in SUBSET (Execs \ {i}) : J = IF k = NoKey THEN {} ELSE Sharing(i)
    BY DEF Sharing
  <2>2. exec' = [j \in Execs |-> IF j = i THEN Named(exec[i], k, J # {})
                                ELSE IF j \in J THEN Shared(exec[j]) ELSE exec[j]]
    BY <1>3, <2>0, <2>1 DEF Find
  <2>b. PICK b \in BOOLEAN : b = (J # {})
    <3>1. CASE J = {}
      <4>1. FALSE = (J # {})
        BY <3>1
      <4>q. QED
        BY <4>1
    <3>2. CASE J # {}
      <4>1. TRUE = (J # {})
        BY <3>2
      <4>q. QED
        BY <4>1
    <3>q. QED
      BY <3>1, <3>2
  <2>a. /\ Named(exec[i], k, b) \in Exec
        /\ Named(exec[i], k, b).pc = IF k = NoKey THEN "run" ELSE "key"
        /\ Named(exec[i], k, b).want = k
        /\ Named(exec[i], k, b).name = now
        /\ Named(exec[i], k, b).shared = b
    BY <1>1, NamedFields, Current
  <2>3. PICK y \in Exec :
          /\ y = Named(exec[i], k, b)
          /\ y.pc = IF k = NoKey THEN "run" ELSE "key"
          /\ y.want = k /\ y.name = now /\ y.shared = b
    BY <2>a
  <2>4. /\ exec'[i] = y /\ (J # {} => y.shared)
        /\ \A j \in Execs \ {i} : exec'[j] = IF j \in J THEN Shared(exec[j]) ELSE exec[j]
    BY <2>2, <2>b, <2>3
  <2>5. \A j \in Execs \ {i} :
           /\ exec[j] \in Exec /\ exec'[j] \in Exec
           /\ exec'[j].pc = exec[j].pc /\ exec'[j].want = exec[j].want
           /\ exec'[j].name = exec[j].name
           /\ exec[j].shared => exec'[j].shared
           /\ j \in J => exec'[j].shared
           /\ j \notin J => exec'[j] = exec[j]
    BY <2>4, Current, SharedFields
  <2>6. k # NoKey => \A j \in Execs \ {i} :
           exec[j].want # NoKey /\ exec[j].name = now => j \in J
    <3>1. \A j \in Execs : exec[j].want # NoKey => exec[j].pc \in {"key", "ssh", "run"}
      BY Current, Fields DEF Sound
    <3>q. QED
      BY <2>1, <3>1 DEF Sharing
  <2>7. UNCHANGED <<rows, now, file, left>> /\ now \in Times
    BY Current DEF Find
  <2>8. TypeOK'
    BY <2>2, <2>3, <2>4, <2>5, <2>7 DEF Inv, TypeOK, rows
  <2>9. SoundInv'
    <3>1. now <= now
      BY <2>7 DEF Times
    <3>2. Sound(y, file, now)
      BY <2>3, <3>1 DEF Sound, Undisturbed
    <3>3. ASSUME NEW j \in Execs \ {i} PROVE Sound(exec'[j], file, now)
      <4>1. Sound(exec[j], file, now)
        BY Current
      <4>2. CASE j \in J
        <5>1. exec[j].pc \in {"key", "ssh", "run"}
          BY <2>1, <4>2 DEF Sharing
        <5>q. QED
          BY <2>5, <4>1, <4>2, <5>1 DEF Sound, Undisturbed
      <4>3. CASE j \notin J
        BY <2>5, <4>1, <4>3
      <4>q. QED
        BY <4>2, <4>3
    <3>q. QED
      BY <2>4, <2>7, <3>2, <3>3 DEF SoundInv
  <2>10. SharedInv'
    <3>1. SUFFICES ASSUME NEW p \in Execs, NEW q \in Execs, p # q,
                          exec'[p].want # NoKey, exec'[q].want # NoKey,
                          exec'[p].name = exec'[q].name
                   PROVE  exec'[p].shared
      BY DEF SharedInv
    <3>2. CASE p = i
      <4>1. k # NoKey /\ exec[q].want # NoKey /\ exec[q].name = now
        BY <2>3, <2>4, <2>5, <3>1, <3>2
      <4>2. q \in J
        BY <2>6, <3>1, <3>2, <4>1
      <4>q. QED
        BY <2>3, <2>4, <3>2, <4>2
    <3>3. CASE q = i
      <4>1. k # NoKey /\ exec[p].want # NoKey /\ exec[p].name = now
        BY <2>3, <2>4, <2>5, <3>1, <3>3
      <4>q. QED
        BY <2>5, <2>6, <3>1, <3>3, <4>1
    <3>4. CASE p # i /\ q # i
      <4>1. exec[p].shared
        BY <2>5, <3>1, <3>4 DEF Inv, RemoteInv, SharedInv
      <4>q. QED
        BY <2>5, <3>4, <4>1
    <3>q. QED
      BY <3>2, <3>3, <3>4
  <2>11. KeyFilesGo'
    <3>1. SUFFICES ASSUME NEW n \in Times, n \notin left, file[n] # NoKey
                   PROVE  \E j \in Execs : exec'[j].pc \in {"ssh", "run"} /\ exec'[j].name = n
                                             /\ exec'[j].want # NoKey
      BY <2>7 DEF KeyFilesGo
    <3>2. PICK j \in Execs : exec[j].pc \in {"ssh", "run"} /\ exec[j].name = n
                               /\ exec[j].want # NoKey
      BY <3>1 DEF Inv, RemoteInv, KeyFilesGo
    <3>q. QED
      BY <1>1, <2>5, <3>2
  <2>q. QED
    BY <2>7, <2>8, <2>9, <2>10, <2>11 DEF Inv, RemoteInv, RushedInv, rows
<1>q. QED
  BY <1>2, <1>3

LEMMA WriteKeyKeeps == ASSUME Inv, NEW i \in Execs, WriteKey(i) PROVE Inv'
<1>1. PICK found \in BOOLEAN : found = (exec[i].want \in keys)
  <2>1. CASE exec[i].want \in keys
    <3>1. TRUE = (exec[i].want \in keys)
      BY <2>1
    <3>q. QED
      BY <3>1
  <2>2. CASE exec[i].want \notin keys
    <3>1. FALSE = (exec[i].want \in keys)
      BY <2>2
    <3>q. QED
      BY <3>1
  <2>q. QED
    BY <2>1, <2>2
<1>2. exec[i] \in Exec /\ exec[i].pc = "key" /\ exec[i].want # NoKey
      /\ exec[i].want \in MaybeKey /\ exec[i].name \in Times /\ exec[i].name <= now
  BY Current DEF WriteKey, Sound
<1>3. PICK y \in Exec : /\ y = Spawned(exec[i], found)
                        /\ y.pc = "ssh" /\ y.want = exec[i].want /\ y.name = exec[i].name
                        /\ y.shared = exec[i].shared /\ y.gone = ~found
  BY <1>1, <1>2, SpawnedFields
<1>4. exec' = [exec EXCEPT ![i] = y] /\ UNCHANGED <<rows, now, left>>
  BY <1>1, <1>3 DEF WriteKey
<1>5. file' = IF found THEN [file EXCEPT ![exec[i].name] = exec[i].want] ELSE file
  BY <1>1 DEF WriteKey
<1>6. /\ file' \in [Times -> MaybeKey]
      /\ \A n \in Times : n # exec[i].name => file'[n] = file[n]
      /\ found => file'[exec[i].name] = exec[i].want
  BY <1>2, <1>5, Current
<1>7. Sound(y, file', now)
  BY <1>2, <1>3, <1>6 DEF Sound, Undisturbed
<1>q. QED
  BY <1>2, <1>3, <1>4, <1>6, <1>7, Current, OneExec

LEMMA SshReadsKeeps == ASSUME Inv, NEW i \in Execs, SshReads(i) PROVE Inv'
<1>1. exec[i] \in Exec /\ exec[i].pc = "ssh" /\ exec[i].want # NoKey
      /\ file[exec[i].name] \in MaybeKey
  BY Current DEF SshReads, Sound
<1>2. PICK y \in Exec : /\ y = Authenticated(exec[i], file[exec[i].name])
                        /\ y.pc = "run" /\ y.want = exec[i].want /\ y.name = exec[i].name
                        /\ y.read = file[exec[i].name]
                        /\ y.shared = exec[i].shared /\ y.gone = exec[i].gone
  BY <1>1, AuthenticatedFields
<1>3. Sound(y, file, now)
  BY <1>1, <1>2, Current DEF Sound, Undisturbed
<1>q. QED
  BY <1>1, <1>2, <1>3, Current, OneExec DEF SshReads

\* An execution that ends: its file is removed, or counted among those left.
LEMMA Ends ==
    ASSUME Inv, NEW i \in Execs, exec[i].pc \in {"ssh", "run"}, NEW y \in Exec,
           exec' = [exec EXCEPT ![i] = y], y.pc = "done", y.want = NoKey,
           UNCHANGED <<rows, now>>,
           file' \in {file, Unlinked(i)}, exec[i].want = NoKey => file' = file,
           left' \in SUBSET Times, left \subseteq left',
           exec[i].want = NoKey \/ file' = Unlinked(i) \/ exec[i].name \in left'
    PROVE  Inv'
<1>1. /\ file' \in [Times -> MaybeKey]
      /\ \A n \in Times : n # exec[i].name => file'[n] = file[n]
      /\ file' = Unlinked(i) => file'[exec[i].name] = NoKey
  BY Current DEF Unlinked, MaybeKey
<1>2. Sound(y, file', now)
  BY DEF Sound, Undisturbed
<1>q. QED
  BY <1>1, <1>2, OneExec

LEMMA MetricsArriveKeeps == ASSUME Inv, NEW i \in Execs, MetricsArrive(i) PROVE Inv'
<1>1. Told(i, "ok", "unreachable") /\ exec[i].pc = "run" /\ UNCHANGED <<rows, now, left>>
      /\ file' = IF exec[i].want # NoKey THEN Unlinked(i) ELSE file
  BY DEF MetricsArrive
<1>2. PICK y \in Exec : /\ y = Answer(exec[i], "ok", "unreachable")
                        /\ y.pc = "done" /\ y.want = NoKey
  BY Current, AnswerFields
<1>3. exec' = [exec EXCEPT ![i] = y]
  BY <1>1, <1>2 DEF Told
<1>q. QED
  BY <1>1, <1>2, <1>3, Current, Ends

LEMMA MetricsFailKeeps == ASSUME Inv, NEW i \in Execs, MetricsFail(i) PROVE Inv'
<1>1. left' \in SUBSET Times /\ left \subseteq left'
      /\ (exec[i].want = NoKey \/ exec[i].name \in left')
  BY Current DEF MetricsFail
<1>2. PICK y \in Exec : /\ y = Answer(exec[i], "failed", "unreachable")
                        /\ y.pc = "done" /\ y.want = NoKey /\ y.exit = "failed"
  BY Current, AnswerFields
<1>3. exec' = [exec EXCEPT ![i] = y]
  BY <1>2 DEF MetricsFail, Told
<1>q. QED
  BY <1>1, <1>2, <1>3, Ends DEF MetricsFail

LEMMA CommandEndsKeeps == ASSUME Inv, NEW i \in Execs, CommandEnds(i) PROVE Inv'
<1>1. exec[i].kind # "metrics" /\ exec[i].pc \in {"ssh", "run"}
      /\ UNCHANGED <<rows, now, left>>
      /\ file' = IF exec[i].want # NoKey THEN Unlinked(i) ELSE file
  BY DEF CommandEnds
<1>2. Told(i, "ok", "success") \/ Told(i, "failed", "failed")
  BY DEF CommandEnds
<1>3. PICK y \in Exec : /\ exec' = [exec EXCEPT ![i] = y]
                        /\ y.pc = "done" /\ y.want = NoKey /\ y.kind = exec[i].kind
  <2>1. CASE Told(i, "ok", "success")
    <3>1. PICK y \in Exec : /\ y = Answer(exec[i], "ok", "success")
                            /\ y.pc = "done" /\ y.want = NoKey /\ y.kind = exec[i].kind
      BY Current, AnswerFields
    <3>2. exec' = [exec EXCEPT ![i] = y]
      BY <2>1, <3>1 DEF Told
    <3>q. QED
      BY <3>1, <3>2
  <2>2. CASE Told(i, "failed", "failed")
    <3>1. PICK y \in Exec : /\ y = Answer(exec[i], "failed", "failed")
                            /\ y.pc = "done" /\ y.want = NoKey /\ y.kind = exec[i].kind
      BY Current, AnswerFields
    <3>2. exec' = [exec EXCEPT ![i] = y]
      BY <2>2, <3>1 DEF Told
    <3>q. QED
      BY <3>1, <3>2
  <2>q. QED
    BY <1>2, <2>1, <2>2
<1>q. QED
  BY <1>1, <1>3, Current, Ends

LEMMA TickKeeps == ASSUME Inv, Tick PROVE Inv'
<1>1. now \in Times /\ now' \in Times /\ now' = now + 1 /\ UNCHANGED <<rows, file, exec, left>>
  BY RemoteAssumption DEF Inv, TypeOK, Tick, Times
<1>2. TypeOK'
  BY <1>1 DEF Inv, TypeOK, rows
<1>3. SoundInv'
  <2>1. SUFFICES ASSUME NEW i \in Execs PROVE Sound(exec[i], file, now')
    BY <1>1 DEF SoundInv
  <2>2. Sound(exec[i], file, now) /\ exec[i].name \in Times
    BY Current
  <2>3. exec[i].name <= now => exec[i].name <= now'
    BY <1>1, <2>2 DEF Times
  <2>q. QED
    BY <2>2, <2>3 DEF Sound
<1>q. QED
  BY <1>1, <1>2, <1>3 DEF Inv, RemoteInv, SharedInv, KeyFilesGo, RushedInv, rows

LEMMA CrashKeeps == ASSUME Inv, Crash PROVE Inv'
<1>1. \A i \in Execs : exec'[i] = IdleExec
  BY DEF Crash
<1>2. /\ left' \in SUBSET Times /\ left \subseteq left'
      /\ \A i \in Execs : exec[i].pc \in {"ssh", "run"} => exec[i].name \in left'
  BY Current DEF Crash, Inv, TypeOK
<1>3. TypeOK'
  BY <1>2, IdleFields DEF Crash, Inv, TypeOK
<1>4. SoundInv'
  BY <1>1, IdleFields DEF SoundInv, Sound, Undisturbed
<1>5. SharedInv'
  BY <1>1, IdleFields DEF SharedInv
<1>6. KeyFilesGo'
  BY <1>2 DEF Crash, Inv, RemoteInv, KeyFilesGo
<1>7. RushedInv'
  BY DEF Crash, RushedInv
<1>q. QED
  BY <1>3, <1>4, <1>5, <1>6, <1>7 DEF Inv, RemoteInv

LEMMA NextKeeps == ASSUME Inv, [Next]_vars PROVE Inv'
<1>1. CASE UNCHANGED vars
  BY <1>1 DEF vars, Inv, TypeOK, RemoteInv, SoundInv, SharedInv, KeyFilesGo, RushedInv
<1>2. CASE Next
  BY <1>2, CreateKeyKeeps, WriteServerKeeps, DeleteServerKeeps, CheckKeyKeeps, DropKeyKeeps,
     StartKeeps, StartAllKeeps, FindKeeps, WriteKeyKeeps, SshReadsKeeps, MetricsArriveKeeps,
     MetricsFailKeeps, CommandEndsKeeps, TickKeeps, CrashKeeps DEF Next
<1>q. QED
  BY <1>1, <1>2

-----------------------------------------------------------------------------
(* Theorems.                                                               *)

\* The inductive invariant holds in every reachable state.
THEOREM RemoteInvariant == Spec => []Inv
<1>1. Init => Inv
  BY InitInv
<1>2. Inv /\ [Next]_vars => Inv'
  BY NextKeeps
<1>q. QED
  BY <1>1, <1>2, PTL DEF Spec

\* Every variable keeps its type.
THEOREM RemoteTypeCorrect == Spec => []TypeOK
<1>1. Inv => TypeOK
  BY DEF Inv
<1>q. QED
  BY <1>1, RemoteInvariant, PTL

\* A command is run with the key of its own server (OwnKey), although the file
\* of the key is known by its time alone.
THEOREM RemoteOwnKey == Spec => []OwnKey
<1>1. Inv => OwnKey
  BY DEF Inv, RemoteInv, SoundInv, Sound, OwnKey
<1>q. QED
  BY <1>1, RemoteInvariant, PTL

\* A private key is on the disk only while a command uses it (KeyFilesGo).
THEOREM RemoteKeyFilesGo == Spec => []KeyFilesGo
<1>1. Inv => KeyFilesGo
  BY DEF Inv, RemoteInv
<1>q. QED
  BY <1>1, RemoteInvariant, PTL

\* A server does not lose its key, unless it was given one that was being
\* deleted (KeyLossNeedsRace).
THEOREM RemoteKeyLoss == Spec => KeyLossNeedsRace
<1>1. ASSUME Inv, [Next]_vars, NEW s \in servers \cap servers',
             keyOf[s] # NoKey, keyOf'[s] = NoKey
      PROVE  keyOf[s] \in rushed \/ WriteServer(s, NoKey)
  <2>1. s \in Servers /\ keyOf \in [Servers -> MaybeKey]
    BY <1>1 DEF Inv, TypeOK
  <2>2. keyOf' # keyOf
    BY <1>1
  <2>3. ASSUME NEW k \in Keys, DropKey(k) PROVE keyOf[s] \in rushed
    <3>1. keyOf[s] = k /\ k \in dropping
      BY <1>1, <2>1, <2>3 DEF DropKey
    <3>q. QED
      BY <1>1, <3>1 DEF Inv, RemoteInv, RushedInv
  <2>4. ASSUME NEW t \in Servers, DeleteServer(t) PROVE FALSE
    BY <1>1, <2>1, <2>4 DEF DeleteServer
  <2>5. ASSUME NEW t \in Servers, NEW k \in MaybeKey, WriteServer(t, k)
        PROVE  WriteServer(s, NoKey)
    <3>1. t = s /\ k = NoKey
      BY <1>1, <2>1, <2>5 DEF WriteServer
    <3>q. QED
      BY <2>5, <3>1
  <2>q. QED
    BY <1>1, <2>2, <2>3, <2>4, <2>5
    DEF Next, vars, rows, CreateKey, CheckKey, Start, StartAll, Find, WriteKey, SshReads,
        MetricsArrive, MetricsFail, CommandEnds, Tick, Crash
<1>2. Inv /\ [Next]_vars =>
        [\A s \in servers \cap servers' :
            keyOf[s] # NoKey /\ keyOf'[s] = NoKey =>
                keyOf[s] \in rushed \/ WriteServer(s, NoKey)]_vars
  BY <1>1
<1>q. QED
  BY <1>2, RemoteInvariant, PTL DEF Spec, KeyLossNeedsRace

=============================================================================
