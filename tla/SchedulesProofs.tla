-------------------------- MODULE SchedulesProofs --------------------------
(***************************************************************************)
(* Proofs about Schedules, for any schedules, patterns and requests, and   *)
(* about CronJobs, for any cron jobs, servers and requests.                *)
(***************************************************************************)
EXTENDS Schedules, CronJobs, SequenceTheorems, TLAPS

\* What the type invariant says of one request.
GoodCall(x) ==
    /\ x \in Call
    /\ x.pc # "idle" => x.id \in Schedules
    /\ x.pc = "register" => x.to # NoCron

(* What a request may look like, and what its next step makes of it.       *)

\* The fields of a request.
LEMMA CallFields ==
    ASSUME NEW x \in Call
    PROVE  /\ x.pc \in Pcs
           /\ x.id \in Schedules \cup {NoSchedule}
           /\ x.op \in {"create", "update", "delete"}
           /\ x.set \in {"keep", "disabled", "enabled"}
           /\ x.to \in Crons \cup {NoCron}
  BY DEF Call

\* The caller that asks for nothing.
LEMMA CallIdle == IdleCall \in Call /\ IdleCall.pc = "idle" /\ GoodCall(IdleCall)
  BY DEF Call, IdleCall, Pcs, GoodCall

\* A row was written that has to be registered.
LEMMA CallRegisters ==
    ASSUME NEW s \in Schedules, NEW k \in Crons
    PROVE  LET n == Registering(s, k)
           IN GoodCall(n) /\ n.pc = "register" /\ n.id = s /\ n.to = k
  BY ScheduleAssumption DEF Registering, GoodCall, Call, IdleCall, Pcs

\* An update was asked for.
LEMMA CallUpdates ==
    ASSUME NEW s \in Schedules, NEW e \in {"keep", "disabled", "enabled"},
           NEW k \in Crons \cup {NoCron}
    PROVE  LET n == Updating(s, e, k)
           IN GoodCall(n) /\ n.pc = "write" /\ n.id = s
  BY DEF Updating, GoodCall, Call, IdleCall, Pcs

\* A deletion was asked for.
LEMMA CallDeletes ==
    ASSUME NEW s \in Schedules
    PROVE  LET n == Deleting(s)
           IN GoodCall(n) /\ n.pc = "write" /\ n.id = s
  BY DEF Deleting, GoodCall, Call, IdleCall, Pcs

\* Replacing one request by a well-typed one keeps all well-typed.
LEMMA CallsTyped ==
    ASSUME TypeOK, NEW c \in Callers, NEW n, GoodCall(n), call' = [call EXCEPT ![c] = n]
    PROVE  /\ call' \in [Callers -> Call]
           /\ \A d \in Callers : GoodCall(call'[d])
           /\ call'[c] = n
           /\ \A d \in Callers \ {c} : call'[d] = call[d]
  BY DEF TypeOK, GoodCall

-----------------------------------------------------------------------------
(* Types.                                                                  *)

\* The part of the type invariant about rows.
RowsTyped ==
    /\ state \in [Schedules -> RowState]
    /\ cron \in [Schedules -> Crons \cup {NoCron}]
    /\ \A s \in Schedules : state[s] # "absent" => cron[s] # NoCron

\* Its parts together.
LEMMA TypeParts ==
    TypeOK <=> /\ RowsTyped
               /\ used \subseteq Schedules
               /\ repeat \subseteq Schedules \X Crons
               /\ call \in [Callers -> Call]
               /\ \A c \in Callers : GoodCall(call[c])
               /\ up \in BOOLEAN
  BY DEF TypeOK, RowsTyped, GoodCall

\* The initial state is typed.
LEMMA TypeInit == Init => TypeOK
  BY CallIdle, ScheduleAssumption DEF Init, TypeOK, RowState

\* Every action keeps the types.
LEMMA TypeStep == TypeOK /\ [Next]_vars => TypeOK'
<1> SUFFICES ASSUME TypeOK, [Next]_vars PROVE TypeOK'
  OBVIOUS
<1> USE ScheduleAssumption
<1>1. ASSUME NEW c \in Callers, NEW s \in Schedules, CreateRow(c, s) PROVE TypeOK'
  <2>1. PICK e \in {"disabled", "enabled"}, k \in Crons :
           /\ state' = [state EXCEPT ![s] = e]
           /\ cron' = [cron EXCEPT ![s] = k]
           /\ call' = [call EXCEPT ![c] =
                 IF e = "enabled" THEN Registering(s, k) ELSE IdleCall]
    BY <1>1 DEF CreateRow
  <2>2. PICK n : /\ call' = [call EXCEPT ![c] = n]
                 /\ \/ n = IdleCall
                    \/ n = Registering(s, k)
    BY <2>1
  <2>3. GoodCall(n)
    BY <2>2, CallIdle, CallRegisters
  <2>4. call' \in [Callers -> Call] /\ \A d \in Callers : GoodCall(call'[d])
    BY <2>2, <2>3, CallsTyped
  <2>5. RowsTyped'
    BY <2>1 DEF RowsTyped, TypeOK, RowState
  <2>6. /\ used' \subseteq Schedules /\ repeat' \subseteq Schedules \X Crons
        /\ up' \in BOOLEAN
    BY <1>1 DEF CreateRow, TypeOK
  <2> QED BY <2>4, <2>5, <2>6 DEF TypeOK, RowsTyped, GoodCall
<1>2. ASSUME NEW c \in Callers, NEW s \in Schedules, RequestUpdate(c, s) PROVE TypeOK'
  <2>a. PICK e \in {"keep", "disabled", "enabled"}, k \in Crons \cup {NoCron} :
           call' = [call EXCEPT ![c] = Updating(s, e, k)]
    BY <1>2 DEF RequestUpdate
  <2>1. PICK n : /\ n = Updating(s, e, k)
                 /\ call' = [call EXCEPT ![c] = n]
    BY <2>a
  <2>2. GoodCall(n)
    BY <2>1, CallUpdates
  <2>3. call' \in [Callers -> Call] /\ \A d \in Callers : GoodCall(call'[d])
    BY <2>1, <2>2, CallsTyped
  <2> QED BY <1>2, <2>3 DEF RequestUpdate, TypeOK, GoodCall
<1>3. ASSUME NEW c \in Callers, NEW s \in Schedules, RequestDelete(c, s) PROVE TypeOK'
  <2>1. PICK n : /\ n = Deleting(s)
                 /\ call' = [call EXCEPT ![c] = n]
    BY <1>3 DEF RequestDelete
  <2>2. GoodCall(n)
    BY <2>1, CallDeletes
  <2>3. call' \in [Callers -> Call] /\ \A d \in Callers : GoodCall(call'[d])
    BY <2>1, <2>2, CallsTyped
  <2> QED BY <1>3, <2>3 DEF RequestDelete, TypeOK, GoodCall
<1>4. ASSUME NEW S \in SUBSET AppSchedules, RemoveApp(S) PROVE TypeOK'
  <2>1. RowsTyped'
    BY <1>4 DEF RemoveApp, RowsTyped, TypeOK, RowState
  <2> QED BY <1>4, <2>1 DEF RemoveApp, TypeOK, RowsTyped, Schedules
<1>5. ASSUME NEW c \in Callers, WriteUpdate(c) PROVE TypeOK'
  <2>1. call[c] \in Call /\ call[c].id \in Schedules
    BY <1>5 DEF WriteUpdate, TypeOK
  <2>a. PICK s \in Schedules : s = call[c].id
    BY <2>1
  <2>2. PICK e, k :
           /\ s = call[c].id
           /\ e = IF call[c].set = "keep" THEN state[s] ELSE call[c].set
           /\ k = IF call[c].to = NoCron THEN cron[s] ELSE call[c].to
    BY <2>a
  <2>3. \/ /\ call' = [call EXCEPT ![c] = IdleCall]
           /\ UNCHANGED <<state, cron>>
        \/ /\ state[s] # "absent"
           /\ state' = [state EXCEPT ![s] = e]
           /\ cron' = [cron EXCEPT ![s] = k]
           /\ call' = [call EXCEPT ![c] =
                 IF e = "enabled" THEN Registering(s, k) ELSE IdleCall]
    BY <1>5, <2>2 DEF WriteUpdate
  <2>4. state[s] # "absent" => e \in {"disabled", "enabled"} /\ k \in Crons
    BY <2>1, <2>2, CallFields DEF TypeOK, RowState
  <2>5. RowsTyped'
    BY <2>3, <2>4 DEF RowsTyped, TypeOK, RowState
  <2>6. PICK n : /\ call' = [call EXCEPT ![c] = n]
                 /\ \/ n = IdleCall
                    \/ /\ n = Registering(s, k)
                       /\ k \in Crons
    BY <2>3, <2>4
  <2>7. GoodCall(n)
    BY <2>6, CallIdle, CallRegisters
  <2>8. call' \in [Callers -> Call] /\ \A d \in Callers : GoodCall(call'[d])
    BY <2>6, <2>7, CallsTyped
  <2> QED BY <1>5, <2>5, <2>8 DEF WriteUpdate, TypeOK, RowsTyped, GoodCall
<1>6. ASSUME NEW c \in Callers, WriteDelete(c) PROVE TypeOK'
  <2>1. GoodCall(IdleCall)
    BY CallIdle
  <2>2. call' \in [Callers -> Call] /\ \A d \in Callers : GoodCall(call'[d])
    BY <1>6, <2>1, CallsTyped DEF WriteDelete
  <2>3. RowsTyped'
    BY <1>6 DEF WriteDelete, RowsTyped, TypeOK, RowState
  <2> QED BY <1>6, <2>2, <2>3 DEF WriteDelete, TypeOK, RowsTyped, GoodCall
<1>7. ASSUME NEW c \in Callers, Register(c) PROVE TypeOK'
  <2>1. GoodCall(IdleCall)
    BY CallIdle
  <2>2. call' \in [Callers -> Call] /\ \A d \in Callers : GoodCall(call'[d])
    BY <1>7, <2>1, CallsTyped DEF Register
  <2>3. call[c].id \in Schedules /\ call[c].to \in Crons
    BY <1>7, CallFields DEF Register, TypeOK
  <2>4. repeat' \subseteq Schedules \X Crons
    BY <1>7, <2>3 DEF Register, TypeOK
  <2> QED BY <1>7, <2>2, <2>4 DEF Register, TypeOK, GoodCall
<1>8. CASE Crash
  <2>1. call' \in [Callers -> Call] /\ \A d \in Callers : call'[d] = IdleCall
    BY <1>8, CallIdle DEF Crash
  <2> QED BY <1>8, <2>1, CallIdle DEF Crash, TypeOK
<1>9. CASE Restart
  <2>1. \A s \in Enabled : s \in Schedules /\ cron[s] \in Crons
    BY DEF Enabled, TypeOK
  <2>2. repeat' \subseteq Schedules \X Crons
    BY <1>9, <2>1 DEF Restart, TypeOK
  <2> QED BY <1>9, <2>2 DEF Restart, TypeOK
<1>10. CASE BootFails
  <2>1. \A s \in Enabled : s \in Schedules /\ cron[s] \in Crons
    BY DEF Enabled, TypeOK
  <2>2. repeat' \subseteq Schedules \X Crons
    BY <1>10, <2>1 DEF BootFails, TypeOK
  <2> QED BY <1>10, <2>2 DEF BootFails, TypeOK
<1>11. CASE UNCHANGED vars
  BY <1>11 DEF vars, TypeOK
<1> QED
  BY <1>1, <1>2, <1>3, <1>4, <1>5, <1>6, <1>7, <1>8, <1>9, <1>10, <1>11
     DEF Next, CallStep

\* Rows, jobs and requests have their types in every reachable state.
THEOREM SchedulesTypeCorrect == Spec => []TypeOK
  BY TypeInit, TypeStep, PTL DEF Spec

-----------------------------------------------------------------------------
(* What each action does to the requests, field by field.                  *)

\* The other requests do not move.
Others(c) == \A d \in Callers \ {c} : call'[d] = call[d]

\* A created row carries its state and pattern; the request that wrote it goes on
\* to register exactly that pattern, or ends.
LEMMA CreateShape ==
    ASSUME TypeOK, NEW c \in Callers, NEW s \in Schedules, CreateRow(c, s)
    PROVE  \E e \in {"disabled", "enabled"}, k \in Crons :
              /\ state' = [state EXCEPT ![s] = e]
              /\ cron' = [cron EXCEPT ![s] = k]
              /\ Others(c)
              /\ \/ e = "disabled" /\ call'[c].pc = "idle"
                 \/ /\ e = "enabled" /\ call'[c].pc = "register"
                    /\ call'[c].id = s /\ call'[c].to = k
<1>1. PICK e \in {"disabled", "enabled"}, k \in Crons :
         /\ state' = [state EXCEPT ![s] = e]
         /\ cron' = [cron EXCEPT ![s] = k]
         /\ call' = [call EXCEPT ![c] =
               IF e = "enabled" THEN Registering(s, k) ELSE IdleCall]
  BY DEF CreateRow
<1>2. PICK n : /\ call' = [call EXCEPT ![c] = n]
               /\ \/ e = "disabled" /\ n = IdleCall
                  \/ /\ e = "enabled"
                     /\ n = Registering(s, k)
  BY <1>1
<1>3. \/ e = "disabled" /\ n.pc = "idle"
      \/ e = "enabled" /\ n.pc = "register" /\ n.id = s /\ n.to = k
  <2>1. n = Registering(s, k)
           => n.pc = "register" /\ n.id = s /\ n.to = k
    BY s \in Schedules, k \in Crons, CallRegisters
  <2> QED BY <1>2, <2>1, CallIdle
<1>4. call'[c] = n /\ Others(c)
  BY <1>2 DEF Others, TypeOK
<1> QED BY <1>1, <1>3, <1>4

\* An update goes on to write its row.
LEMMA UpdateShape ==
    ASSUME TypeOK, NEW c \in Callers, NEW s \in Schedules, RequestUpdate(c, s)
    PROVE  call'[c].pc = "write" /\ call'[c].id = s /\ Others(c)
<1>a. PICK e \in {"keep", "disabled", "enabled"}, k \in Crons \cup {NoCron} :
         call' = [call EXCEPT ![c] = Updating(s, e, k)]
  BY DEF RequestUpdate
<1>1. PICK n : /\ n = Updating(s, e, k)
               /\ call' = [call EXCEPT ![c] = n]
  BY <1>a
<1>2. n.pc = "write" /\ n.id = s
  BY <1>1, s \in Schedules, CallUpdates
<1> QED BY <1>1, <1>2 DEF Others, TypeOK

\* A deletion goes on to delete its row.
LEMMA DeleteShape ==
    ASSUME TypeOK, NEW c \in Callers, NEW s \in Schedules, RequestDelete(c, s)
    PROVE  call'[c].pc = "write" /\ call'[c].id = s /\ Others(c)
<1>1. PICK n : /\ n = Deleting(s)
               /\ call' = [call EXCEPT ![c] = n]
  BY DEF RequestDelete
<1>2. n.pc = "write" /\ n.id = s
  BY <1>1, CallDeletes
<1> QED BY <1>1, <1>2 DEF Others, TypeOK

\* An update changes a row that exists, and goes on to register what it wrote.
LEMMA WriteShape ==
    ASSUME TypeOK, NEW c \in Callers, WriteUpdate(c)
    PROVE  LET s == call[c].id
           IN /\ s \in Schedules
              /\ Others(c)
              /\ \/ /\ state[s] = "absent"
                    /\ call'[c].pc = "idle"
                    /\ UNCHANGED <<state, cron>>
                 \/ /\ state[s] # "absent"
                    /\ \E e \in {"disabled", "enabled"}, k \in Crons :
                          /\ state' = [state EXCEPT ![s] = e]
                          /\ cron' = [cron EXCEPT ![s] = k]
                          /\ \/ e = "disabled" /\ call'[c].pc = "idle"
                             \/ /\ e = "enabled" /\ call'[c].pc = "register"
                                /\ call'[c].id = s /\ call'[c].to = k
<1>1. call[c] \in Call /\ call[c].id \in Schedules
  BY DEF WriteUpdate, TypeOK
<1>a. PICK s \in Schedules : s = call[c].id
  BY <1>1
<1>2. PICK e, k :
         /\ s = call[c].id
         /\ e = IF call[c].set = "keep" THEN state[s] ELSE call[c].set
         /\ k = IF call[c].to = NoCron THEN cron[s] ELSE call[c].to
  BY <1>a
<1>3. state[s] # "absent" => e \in {"disabled", "enabled"} /\ k \in Crons
  BY <1>1, <1>2, CallFields DEF TypeOK, RowState
<1>4. \/ /\ state[s] = "absent"
         /\ call' = [call EXCEPT ![c] = IdleCall]
         /\ UNCHANGED <<state, cron>>
      \/ /\ state[s] # "absent"
         /\ state' = [state EXCEPT ![s] = e]
         /\ cron' = [cron EXCEPT ![s] = k]
         /\ call' = [call EXCEPT ![c] =
               IF e = "enabled" THEN Registering(s, k) ELSE IdleCall]
  BY <1>2 DEF WriteUpdate
<1>5. PICK n : /\ call' = [call EXCEPT ![c] = n]
               /\ \/ state[s] = "absent" /\ n = IdleCall /\ UNCHANGED <<state, cron>>
                  \/ /\ state[s] # "absent"
                     /\ state' = [state EXCEPT ![s] = e]
                     /\ cron' = [cron EXCEPT ![s] = k]
                     /\ \/ e = "disabled" /\ n = IdleCall
                        \/ /\ e = "enabled"
                           /\ n = Registering(s, k)
  BY <1>3, <1>4
<1>6. \/ state[s] = "absent" /\ n.pc = "idle"
      \/ state[s] # "absent" /\ e = "disabled" /\ n.pc = "idle"
      \/ state[s] # "absent" /\ e = "enabled" /\ n.pc = "register" /\ n.id = s /\ n.to = k
  <2>1. k \in Crons /\ n = Registering(s, k)
           => n.pc = "register" /\ n.id = s /\ n.to = k
    BY s \in Schedules, CallRegisters
  <2> QED BY <1>3, <1>5, <2>1, CallIdle
<1>7. call'[c] = n /\ Others(c)
  BY <1>5 DEF Others, TypeOK
<1> QED BY <1>2, <1>3, <1>5, <1>6, <1>7

\* A request that ends moves no other.
LEMMA IdleShape ==
    ASSUME TypeOK, NEW c \in Callers, call' = [call EXCEPT ![c] = IdleCall]
    PROVE  call'[c].pc = "idle" /\ Others(c)
  BY CallIdle DEF Others, TypeOK

\* A crash ends every request.
LEMMA CrashShape ==
    ASSUME Crash
    PROVE  \A c \in Callers : call'[c].pc = "idle"
  BY CallIdle DEF Crash

-----------------------------------------------------------------------------
(* Requests are about created ids.                                         *)

\* Every action keeps the requests about created ids, while the process runs.
LEMMA RequestStep == TypeOK /\ RequestInv /\ [Next]_vars => RequestInv'
<1> SUFFICES ASSUME TypeOK, RequestInv, [Next]_vars PROVE RequestInv'
  OBVIOUS
<1>1. ASSUME NEW c \in Callers, NEW s \in Schedules, CreateRow(c, s) PROVE RequestInv'
  <2>1. up /\ UNCHANGED up /\ used' = used \cup {s}
    BY <1>1 DEF CreateRow
  <2>2. PICK e : /\ state' = [state EXCEPT ![s] = e]
                 /\ Others(c)
                 /\ call'[c].pc # "idle" => call'[c].id = s
    BY <1>1, CreateShape
  <2>3. \A d \in Callers : call'[d].pc # "idle" => up' /\ call'[d].id \in used'
    BY <2>1, <2>2 DEF Others, RequestInv
  <2>4. \A r \in Schedules \ used' : state'[r] = "absent"
    BY <2>1, <2>2 DEF RequestInv, TypeOK
  <2> QED BY <2>3, <2>4 DEF RequestInv
<1>2. ASSUME NEW c \in Callers, NEW s \in Schedules, RequestUpdate(c, s) PROVE RequestInv'
  <2>1. up /\ s \in used /\ UNCHANGED <<used, up, state>>
    BY <1>2 DEF RequestUpdate
  <2>2. call'[c].id = s /\ Others(c)
    BY <1>2, UpdateShape
  <2> QED BY <2>1, <2>2 DEF Others, RequestInv
<1>3. ASSUME NEW c \in Callers, NEW s \in Schedules, RequestDelete(c, s) PROVE RequestInv'
  BY <1>3, DeleteShape DEF RequestDelete, Others, RequestInv, TypeOK
<1>4. ASSUME NEW S \in SUBSET AppSchedules, RemoveApp(S) PROVE RequestInv'
  BY <1>4 DEF RemoveApp, RequestInv, TypeOK
<1>5. ASSUME NEW c \in Callers, WriteUpdate(c) PROVE RequestInv'
  <2>1. UNCHANGED <<used, up>> /\ up /\ call[c].id \in used
    BY <1>5 DEF WriteUpdate, RequestInv
  <2> QED BY <1>5, <2>1, WriteShape DEF Others, RequestInv, TypeOK
<1>6. ASSUME NEW c \in Callers, WriteDelete(c) PROVE RequestInv'
  BY <1>6, IdleShape DEF WriteDelete, Others, RequestInv, TypeOK
<1>7. ASSUME NEW c \in Callers, Register(c) PROVE RequestInv'
  BY <1>7, IdleShape DEF Register, Others, RequestInv, TypeOK
<1>8. CASE Crash
  BY <1>8, CrashShape DEF Crash, RequestInv
<1>9. CASE Restart
  BY <1>9 DEF Restart, RequestInv
<1>10. CASE BootFails
  BY <1>10 DEF BootFails, RequestInv
<1>11. CASE UNCHANGED vars
  BY <1>11 DEF vars, RequestInv
<1> QED
  BY <1>1, <1>2, <1>3, <1>4, <1>5, <1>6, <1>7, <1>8, <1>9, <1>10, <1>11
     DEF Next, CallStep

-----------------------------------------------------------------------------
(* A missing job is on its way.                                            *)

\* What MissingInv says of one schedule.
Missing(s) ==
    state[s] = "enabled" /\ cron[s] \notin BadCrons
        => <<s, cron[s]>> \in repeat \/ OnItsWay(s)

\* A row that did not change keeps its job, or the request that will add it,
\* when no such request moved and no job of the row was removed.
LEMMA MissingKept ==
    ASSUME NEW s \in Schedules, Missing(s), state'[s] = state[s], cron'[s] = cron[s],
           <<s, cron[s]>> \in repeat => <<s, cron[s]>> \in repeat',
           NEW c \in Callers, Others(c), ~(call[c].pc = "register" /\ call[c].id = s)
    PROVE  Missing(s)'
  BY DEF Missing, OnItsWay, Others

\* Every action keeps a missing job on its way.
LEMMA MissingStep == TypeOK /\ RequestInv /\ MissingInv /\ [Next]_vars => MissingInv'
<1> SUFFICES ASSUME TypeOK, RequestInv, MissingInv, [Next]_vars, up', NEW s \in Schedules
             PROVE  Missing(s)'
  BY DEF MissingInv, Missing
<1>a. up => Missing(s)
  BY DEF MissingInv, Missing
<1>1. ASSUME NEW c \in Callers, NEW t \in Schedules, CreateRow(c, t) PROVE Missing(s)'
  <2>1. up /\ call[c].pc = "idle" /\ UNCHANGED repeat
    BY <1>1 DEF CreateRow
  <2>2. PICK e \in {"disabled", "enabled"}, k \in Crons :
          /\ state' = [state EXCEPT ![t] = e]
          /\ cron' = [cron EXCEPT ![t] = k]
          /\ Others(c)
          /\ \/ e = "disabled" /\ call'[c].pc = "idle"
             \/ /\ e = "enabled" /\ call'[c].pc = "register"
                /\ call'[c].id = t /\ call'[c].to = k
    BY <1>1, CreateShape
  <2>3. CASE s = t
    BY <2>2, <2>3 DEF Missing, OnItsWay, TypeOK
  <2>4. CASE s # t
    <3>1. state'[s] = state[s] /\ cron'[s] = cron[s]
      BY <2>2, <2>4 DEF TypeOK
    <3> QED BY <1>a, <2>1, <2>2, <3>1, MissingKept
  <2> QED BY <2>3, <2>4
<1>2. ASSUME NEW c \in Callers, NEW t \in Schedules, RequestUpdate(c, t) PROVE Missing(s)'
  BY <1>2, <1>a, UpdateShape, MissingKept DEF RequestUpdate
<1>3. ASSUME NEW c \in Callers, NEW t \in Schedules, RequestDelete(c, t) PROVE Missing(s)'
  BY <1>3, <1>a, DeleteShape, MissingKept DEF RequestDelete
<1>4. ASSUME NEW S \in SUBSET AppSchedules, RemoveApp(S) PROVE Missing(s)'
  BY <1>4, <1>a DEF RemoveApp, Missing, OnItsWay
<1>5. ASSUME NEW c \in Callers, WriteUpdate(c) PROVE Missing(s)'
  <2>1. up /\ call[c].pc = "write" /\ UNCHANGED repeat
    BY <1>5 DEF WriteUpdate, RequestInv
  <2>2. call[c].id \in Schedules /\ Others(c)
    BY <1>5, WriteShape
  <2>3. CASE call[c].id = s
    BY <1>5, <2>3, WriteShape DEF Missing, OnItsWay, TypeOK
  <2>4. CASE call[c].id # s
    <3>1. state'[s] = state[s] /\ cron'[s] = cron[s]
      BY <1>5, <2>4, WriteShape DEF TypeOK
    <3> QED BY <1>a, <2>1, <2>2, <2>4, <3>1, MissingKept
  <2> QED BY <2>3, <2>4
<1>6. ASSUME NEW c \in Callers, WriteDelete(c) PROVE Missing(s)'
  <2>1. /\ up /\ call[c].pc = "write" /\ UNCHANGED repeat
        /\ state' = [state EXCEPT ![call[c].id] = "absent"]
        /\ cron' = [cron EXCEPT ![call[c].id] = NoCron]
        /\ Others(c)
    BY <1>6, IdleShape DEF WriteDelete, RequestInv
  <2>2. CASE call[c].id = s
    BY <2>1, <2>2 DEF Missing, TypeOK
  <2>3. CASE call[c].id # s
    <3>1. state'[s] = state[s] /\ cron'[s] = cron[s]
      BY <2>1, <2>3 DEF TypeOK
    <3> QED BY <1>a, <2>1, <2>3, <3>1, MissingKept
  <2> QED BY <2>2, <2>3
<1>7. ASSUME NEW c \in Callers, Register(c) PROVE Missing(s)'
  <2>1. /\ up /\ call[c].pc = "register" /\ UNCHANGED <<state, cron>>
        /\ repeat' = IF call[c].to \in BadCrons THEN repeat
                     ELSE repeat \cup {<<call[c].id, call[c].to>>}
        /\ Others(c)
    BY <1>7, IdleShape DEF Register, RequestInv
  <2>2. CASE call[c].id = s /\ call[c].to = cron[s]
    BY <2>1, <2>2 DEF Missing
  <2>3. CASE ~(call[c].id = s /\ call[c].to = cron[s])
    BY <1>a, <2>1, <2>3 DEF Missing, OnItsWay, Others
  <2> QED BY <2>2, <2>3
<1>8. CASE Crash
  BY <1>8 DEF Crash
<1>9. CASE Restart
  <2>1. s \in Enabled => <<s, cron[s]>> \in repeat'
    BY <1>9 DEF Restart
  <2> QED BY <1>9, <2>1 DEF Restart, Enabled, Missing
<1>10. CASE BootFails
  BY <1>10 DEF BootFails
<1>11. CASE UNCHANGED vars
  BY <1>11, <1>a DEF vars, Missing, OnItsWay
<1> QED
  BY <1>1, <1>2, <1>3, <1>4, <1>5, <1>6, <1>7, <1>8, <1>9, <1>10, <1>11
     DEF Next, CallStep

-----------------------------------------------------------------------------
(* The results.                                                            *)

\* The initial state satisfies the invariant.
LEMMA ScheduleInit == Init => ScheduleInv
<1> SUFFICES ASSUME Init PROVE ScheduleInv
  OBVIOUS
<1>1. \A c \in Callers : call[c].pc = "idle"
  BY CallIdle DEF Init
<1>2. \A s \in Schedules : state[s] = "absent"
  BY DEF Init
<1>4. RequestInv
  BY <1>1, <1>2 DEF RequestInv
<1>5. MissingInv
  BY <1>2 DEF MissingInv
<1> QED BY <1>4, <1>5 DEF ScheduleInv

\* In every reachable state a missing job is on its way.
THEOREM SchedulesInvariant == Spec => [](TypeOK /\ ScheduleInv)
<1>1. Init => TypeOK /\ ScheduleInv
  BY TypeInit, ScheduleInit
<1>2. TypeOK /\ ScheduleInv /\ [Next]_vars => TypeOK' /\ ScheduleInv'
  BY TypeStep, RequestStep, MissingStep DEF ScheduleInv
<1> QED BY <1>1, <1>2, PTL DEF Spec

\* However the requests of any number of callers interleave and crash, an
\* enabled schedule that none of them is working on has its job.
THEOREM SchedulesEnabled == Spec => []EnabledIsScheduled
<1>1. MissingInv => EnabledIsScheduled
  BY DEF MissingInv, OnItsWay, EnabledIsScheduled, Busy
<1> QED BY <1>1, SchedulesInvariant, PTL DEF ScheduleInv

-----------------------------------------------------------------------------
(***************************************************************************)
(* Theorems about CronJobs, for any cron jobs, servers and requests: an    *)
(* invariant about one job at a time, and one about the crontabs that are  *)
(* read and not yet written back.                                          *)
(***************************************************************************)

\* What a request on a managed server may have left to do, whose crontab at last
\* has the job's line,
Enters == {<<"append", "save">>, <<"clear", "append", "save">>,
           <<"append", "clear", "append", "save">>,
           <<"clear", "append", "clear", "append", "save">>}

\* or has not.
Leaves == {<<"clear", "save">>, <<"append", "clear", "save">>,
           <<"clear", "append", "clear", "save">>}

FarTodos == Enters \cup Leaves \cup
    {<<"append">>, <<"clear">>, <<"save">>, <<"clear", "delete">>, <<"delete">>}
NearTodos == {<<"add", "save">>, <<"add">>, <<"save">>, <<"delete">>}
Todos(r) == IF r.at = Local THEN NearTodos ELSE FarTodos

\* The command of u is there or may still begin.
Reaches(u) == At(u) \in servers \/ u \in reading

WillBe(u) == New(request[u].set.enabled, row[request[u].id].enabled)

\* What u has found or done in the crontab, when nobody else changes it,
Far(u) ==
    LET found == tab[At(u)][request[u].id]
        todo == request[u].todo
    IN /\ Reaches(u) /\ Head(todo) = "append" => found = None
       /\ At(u) \in servers /\ todo = <<"delete">> => found = None
       /\ At(u) \in servers /\ todo = <<"save">> /\ request[u].id \notin failed =>
             \/ found = [expr |-> request[u].expr, cmd |-> request[u].cmd]
             \/ found = None /\ WillBe(u) = "off"

\* and in the queue.
Near(u) ==
    request[u].todo = <<"save">> /\ WillBe(u) = "on" =>
        [id |-> request[u].id, expr |-> request[u].expr] \in queue

\* What u enters is what the row will say.
Wish(u) ==
    LET q == request[u]
        r == row[q.id]
    IN /\ q.expr = New(q.set.expr, r.expr) /\ q.cmd = New(q.set.cmd, r.cmd)
       /\ q.todo \in {<<"append">>, <<"add">>} => q.set = Nothing
       /\ q.todo # <<"clear">>
       /\ q.todo \in Leaves => WillBe(u) = "off"

Duty(u) ==
    /\ row[request[u].id].state = "there"
    /\ request[u].id \notin failed => Wish(u)
    /\ At(u) \in Servers \ crowded => Far(u)
    /\ At(u) = Local /\ request[u].id \notin failed => Near(u)

For(i) == {u \in Requesters : Active(u) /\ request[u].id = i}

\* What the requests that came one after the other have left.
Done(i) ==
    /\ row[i].at = Local /\ i \notin failed /\ row[i].state = "there" /\ row[i].enabled = "on" =>
          [id |-> i, expr |-> row[i].expr] \in queue
    /\ row[i].at \in servers \ crowded =>
          LET found == tab[row[i].at][i]
          IN /\ row[i].state = "gone" => found = None
             /\ row[i].state = "there" /\ i \notin failed =>
                   found = LineOf(i) \/ (found = None /\ row[i].enabled = "off")

Alone(i) ==
    /\ \A u, v \in For(i) : u = v
    /\ \A u \in For(i) : Duty(u)
    /\ row[i].state # "none" /\ For(i) = {} => Done(i)
    /\ \A s \in Servers \ crowded : tab[s][i] # Many

\* One job.
Job(i) ==
    /\ row[i].state = "none" => row[i].at = Local
    /\ \A s \in Servers \ crowded : s # row[i].at => tab[s][i] = None
    /\ \A u \in For(i) : request[u].todo \in Todos(row[i])
    /\ i \notin overlap => Alone(i)

\* The commands that have read a crontab: alone, they write what they found, but
\* for their own job.
Reads ==
    /\ \A u \in reading :
          /\ Active(u) /\ Head(request[u].todo) \in {"append", "clear"}
          /\ At(u) \in Servers
          /\ At(u) \notin crowded => out[u] = Edited(u)
    /\ \A u, v \in reading : u # v /\ At(u) = At(v) => At(u) \in crowded

CronInv == Reads /\ \A i \in Ids : Job(i)

-----------------------------------------------------------------------------
(* What is left of a request.                                              *)

\* On a managed server.
LEMMA FarTail ==
    ASSUME NEW todo \in FarTodos
    PROVE  /\ todo \in Seq(Operations) /\ todo # <<>>
           /\ Tail(todo) # <<>> => Tail(todo) \in FarTodos /\ Tail(todo) \notin {<<"append">>, <<"add">>, <<"clear">>}
           /\ <<Head(todo)>> # <<>>
           /\ Head(todo) \in {"append", "clear", "save", "delete"}
           /\ Head(todo) \in {"append", "clear"} => <<Head(todo)>> \in FarTodos
           /\ Head(todo) = "append" =>
                 /\ Tail(todo) = <<>> => todo = <<"append">>
                 /\ Tail(todo) # <<>> => Head(Tail(todo)) # "append" /\ Tail(todo) # <<"delete">>
                 /\ Tail(todo) \in Leaves => todo \in Leaves
           /\ Head(todo) = "clear" =>
                 /\ Tail(todo) = <<>> => todo = <<"clear">>
                 /\ Tail(todo) \in Leaves \cup {<<"save">>} => todo \in Leaves
           /\ Head(todo) = "save" => todo = <<"save">> /\ Tail(todo) = <<>>
           /\ Head(todo) = "delete" => todo = <<"delete">> /\ Tail(todo) = <<>>
<1> USE DEF FarTodos, Enters, Leaves, Operations
<1>1. CASE todo = <<"append", "save">>
  BY <1>1
<1>2. CASE todo = <<"clear", "append", "save">>
  BY <1>2
<1>3. CASE todo = <<"append", "clear", "append", "save">>
  BY <1>3
<1>4. CASE todo = <<"clear", "append", "clear", "append", "save">>
  BY <1>4
<1>5. CASE todo = <<"clear", "save">>
  BY <1>5
<1>6. CASE todo = <<"append", "clear", "save">>
  BY <1>6
<1>7. CASE todo = <<"clear", "append", "clear", "save">>
  BY <1>7
<1>8. CASE todo = <<"append">>
  BY <1>8
<1>9. CASE todo = <<"clear">>
  BY <1>9
<1>10. CASE todo = <<"save">>
  BY <1>10
<1>11. CASE todo = <<"clear", "delete">>
  BY <1>11
<1>12. CASE todo = <<"delete">>
  BY <1>12
<1>q. QED
  BY <1>1, <1>2, <1>3, <1>4, <1>5, <1>6, <1>7, <1>8, <1>9, <1>10, <1>11, <1>12

\* On the ops server.
LEMMA NearTail ==
    ASSUME NEW todo \in NearTodos
    PROVE  /\ todo \in Seq(Operations) /\ todo # <<>>
           /\ Head(todo) \in {"add", "save", "delete"}
           /\ Head(todo) = "add" =>
                 \/ todo = <<"add">> /\ Tail(todo) = <<>>
                 \/ todo = <<"add", "save">> /\ Tail(todo) = <<"save">>
           /\ Head(todo) = "save" => todo = <<"save">> /\ Tail(todo) = <<>>
           /\ Head(todo) = "delete" => todo = <<"delete">> /\ Tail(todo) = <<>>
<1> USE DEF NearTodos, Operations
<1>1. CASE todo = <<"add", "save">>
  BY <1>1
<1>2. CASE todo = <<"add">>
  BY <1>2
<1>3. CASE todo = <<"save">>
  BY <1>3
<1>4. CASE todo = <<"delete">>
  BY <1>4
<1>q. QED
  BY <1>1, <1>2, <1>3, <1>4

\* Sequences written out, joined.
LEMMA JoinOneOne ==
    ASSUME NEW a, NEW b
    PROVE  <<a>> \o <<b>> = <<a, b>>
<1> DEFINE S == {a, b}
           s == <<a>> \o <<b>>
           t == <<a, b>>
<1>1. s \in Seq(S) /\ t \in Seq(S) /\ Len(s) = 2 /\ Len(t) = 2
  OBVIOUS
<1>2. s[1] = t[1]
  OBVIOUS
<1>3. s[2] = t[2]
  OBVIOUS
<1> HIDE DEF S, s, t
<1>4. \A i \in 1 .. 2 : s[i] = t[i]
  BY <1>2, <1>3
<1>5. s = t
  BY <1>1, <1>4, SeqEqual
<1>q. QED
  BY <1>5 DEF s, t

LEMMA JoinTwoOne ==
    ASSUME NEW a, NEW b, NEW c
    PROVE  <<a, b>> \o <<c>> = <<a, b, c>>
<1> DEFINE S == {a, b, c}
           s == <<a, b>> \o <<c>>
           t == <<a, b, c>>
<1>1. s \in Seq(S) /\ t \in Seq(S) /\ Len(s) = 3 /\ Len(t) = 3
  OBVIOUS
<1>2. s[1] = t[1]
  OBVIOUS
<1>3. s[2] = t[2] /\ s[3] = t[3]
  OBVIOUS
<1> HIDE DEF S, s, t
<1>4. \A i \in 1 .. 3 : s[i] = t[i]
  BY <1>2, <1>3
<1>5. s = t
  BY <1>1, <1>4, SeqEqual
<1>q. QED
  BY <1>5 DEF s, t

LEMMA JoinTwoTwo ==
    ASSUME NEW a, NEW b, NEW c, NEW d
    PROVE  <<a, b>> \o <<c, d>> = <<a, b, c, d>>
<1> DEFINE S == {a, b, c, d}
           s == <<a, b>> \o <<c, d>>
           t == <<a, b, c, d>>
<1>1. s \in Seq(S) /\ t \in Seq(S) /\ Len(s) = 4 /\ Len(t) = 4
  OBVIOUS
<1>2. s[1] = t[1] /\ s[2] = t[2]
  OBVIOUS
<1>3. s[3] = t[3] /\ s[4] = t[4]
  OBVIOUS
<1> HIDE DEF S, s, t
<1>4. \A i \in 1 .. 4 : s[i] = t[i]
  BY <1>2, <1>3
<1>5. s = t
  BY <1>1, <1>4, SeqEqual
<1>q. QED
  BY <1>5 DEF s, t

LEMMA JoinThreeOne ==
    ASSUME NEW a, NEW b, NEW c, NEW d
    PROVE  <<a, b, c>> \o <<d>> = <<a, b, c, d>>
<1> DEFINE S == {a, b, c, d}
           s == <<a, b, c>> \o <<d>>
           t == <<a, b, c, d>>
<1>1. s \in Seq(S) /\ t \in Seq(S) /\ Len(s) = 4 /\ Len(t) = 4
  OBVIOUS
<1>2. s[1] = t[1] /\ s[2] = t[2]
  OBVIOUS
<1>3. s[3] = t[3] /\ s[4] = t[4]
  OBVIOUS
<1> HIDE DEF S, s, t
<1>4. \A i \in 1 .. 4 : s[i] = t[i]
  BY <1>2, <1>3
<1>5. s = t
  BY <1>1, <1>4, SeqEqual
<1>q. QED
  BY <1>5 DEF s, t

LEMMA JoinFourOne ==
    ASSUME NEW a, NEW b, NEW c, NEW d, NEW e
    PROVE  <<a, b, c, d>> \o <<e>> = <<a, b, c, d, e>>
<1> DEFINE S == {a, b, c, d, e}
           s == <<a, b, c, d>> \o <<e>>
           t == <<a, b, c, d, e>>
<1>1. s \in Seq(S) /\ t \in Seq(S) /\ Len(s) = 5 /\ Len(t) = 5
  OBVIOUS
<1>2. s[1] = t[1] /\ s[2] = t[2]
  OBVIOUS
<1>3. s[3] = t[3] /\ s[4] = t[4] /\ s[5] = t[5]
  OBVIOUS
<1> HIDE DEF S, s, t
<1>4. \A i \in 1 .. 5 : s[i] = t[i]
  BY <1>2, <1>3
<1>5. s = t
  BY <1>1, <1>4, SeqEqual
<1>q. QED
  BY <1>5 DEF s, t

LEMMA JoinEmpty ==
    ASSUME NEW a, NEW b
    PROVE  <<>> \o <<a>> = <<a>> /\ <<>> \o <<a, b>> = <<a, b>> /\ <<a, b>> \o <<>> = <<a, b>>
OBVIOUS

\* What an update plans for a job in a crontab.
LEMMA FarPlan ==
    ASSUME NEW r \in Row, NEW set \in Edit, r.at # Local
    PROVE  LET todo == Plan(r, set)
               on == New(set.enabled, r.enabled)
           IN /\ todo \in FarTodos /\ Head(todo) \in {"clear", "save"}
              /\ todo # <<"clear">>
              /\ todo \in Leaves => on = "off"
              /\ todo = <<"save">> => New(set.expr, r.expr) = r.expr /\ New(set.cmd, r.cmd) = r.cmd
                                     /\ on = r.enabled
<1> DEFINE changed == Changed(r, set)
           toggled == Toggled(r, set)
<1>1. /\ r.enabled \in Switch /\ set.enabled \in Switch \cup {Keep}
      /\ toggled => set.enabled \in Switch /\ New(set.enabled, r.enabled) = set.enabled
  BY DEF Row, Edit, New, Toggled
<1>2. Plan(r, set) =
          (IF changed THEN <<"clear", "append">> ELSE <<>>)
          \o (IF ~toggled THEN <<>>
              ELSE IF set.enabled = "on" THEN <<"clear", "append">> ELSE <<"clear">>)
          \o <<"save">>
  BY DEF Plan
<1> HIDE DEF changed, toggled
<1> USE DEF FarTodos, Enters, Leaves
<1>3. CASE changed /\ toggled /\ set.enabled = "on"
  <2>1. Plan(r, set) = <<"clear", "append", "clear", "append", "save">>
    <3>1. Plan(r, set) = <<"clear", "append">> \o <<"clear", "append">> \o <<"save">>
      BY <1>2, <1>3
    <3>2. <<"clear", "append">> \o <<"clear", "append">> = <<"clear", "append", "clear", "append">>
      BY JoinTwoTwo, Zenon
    <3>3. <<"clear", "append", "clear", "append">> \o <<"save">> = <<"clear", "append", "clear", "append", "save">>
      BY JoinFourOne, Zenon
    <3>q. QED
      BY <3>1, <3>2, <3>3, Zenon
  <2>q. QED
    BY <2>1
<1>4. CASE changed /\ toggled /\ set.enabled # "on"
  <2>1. Plan(r, set) = <<"clear", "append", "clear", "save">>
    <3>1. Plan(r, set) = <<"clear", "append">> \o <<"clear">> \o <<"save">>
      BY <1>2, <1>4
    <3>2. <<"clear", "append">> \o <<"clear">> = <<"clear", "append", "clear">>
      BY JoinTwoOne, Zenon
    <3>3. <<"clear", "append", "clear">> \o <<"save">> = <<"clear", "append", "clear", "save">>
      BY JoinThreeOne, Zenon
    <3>q. QED
      BY <3>1, <3>2, <3>3, Zenon
  <2>2. New(set.enabled, r.enabled) = "off"
    BY <1>1, <1>4 DEF Switch
  <2>q. QED
    BY <2>1, <2>2
<1>5. CASE changed /\ ~toggled
  <2>1. Plan(r, set) = <<"clear", "append", "save">>
    <3>1. Plan(r, set) = <<"clear", "append">> \o <<>> \o <<"save">>
      BY <1>2, <1>5
    <3>q. QED
      BY <3>1, JoinEmpty, JoinOneOne, JoinTwoOne, JoinTwoTwo, JoinThreeOne, JoinFourOne
  <2>q. QED
    BY <2>1
<1>6. CASE ~changed /\ toggled /\ set.enabled = "on"
  <2>1. Plan(r, set) = <<"clear", "append", "save">>
    <3>1. Plan(r, set) = <<>> \o <<"clear", "append">> \o <<"save">>
      BY <1>2, <1>6
    <3>q. QED
      BY <3>1, JoinEmpty, JoinOneOne, JoinTwoOne, JoinTwoTwo, JoinThreeOne, JoinFourOne
  <2>q. QED
    BY <2>1
<1>7. CASE ~changed /\ toggled /\ set.enabled # "on"
  <2>1. Plan(r, set) = <<"clear", "save">>
    <3>1. Plan(r, set) = <<>> \o <<"clear">> \o <<"save">>
      BY <1>2, <1>7
    <3>q. QED
      BY <3>1, JoinEmpty, JoinOneOne, JoinTwoOne, JoinTwoTwo, JoinThreeOne, JoinFourOne
  <2>2. New(set.enabled, r.enabled) = "off"
    BY <1>1, <1>7 DEF Switch
  <2>q. QED
    BY <2>1, <2>2
<1>8. CASE ~changed /\ ~toggled
  <2>1. Plan(r, set) = <<"save">>
    <3>1. Plan(r, set) = <<>> \o <<>> \o <<"save">>
      BY <1>2, <1>8
    <3>q. QED
      BY <3>1, JoinEmpty, JoinOneOne, JoinTwoOne, JoinTwoTwo, JoinThreeOne, JoinFourOne
  <2>q. QED
    BY <1>8, <2>1 DEF changed, toggled, Changed, Toggled
<1>q. QED
  BY <1>3, <1>4, <1>5, <1>6, <1>7, <1>8

\* The same for a job in the queue.
LEMMA NearPlan ==
    ASSUME NEW r \in Row, NEW set \in Edit, r.at = Local
    PROVE  LET todo == Plan(r, set)
               on == New(set.enabled, r.enabled)
           IN /\ todo \in {<<"add", "save">>, <<"save">>}
              /\ todo = <<"save">> /\ on = "on" =>
                    New(set.expr, r.expr) = r.expr /\ on = r.enabled
<1> DEFINE added == (Changed(r, set) \/ Toggled(r, set)) /\ New(set.enabled, r.enabled) = "on"
<1>1. Plan(r, set) = (IF added THEN <<"add">> ELSE <<>>) \o <<"save">>
  BY DEF Plan
<1>2. ~added /\ New(set.enabled, r.enabled) = "on" =>
          New(set.expr, r.expr) = r.expr /\ New(set.enabled, r.enabled) = r.enabled
  BY DEF Changed, Toggled
<1> HIDE DEF added
<1>3. CASE added
  <2>1. Plan(r, set) = <<"add">> \o <<"save">>
    BY <1>1, <1>3
  <2>2. Plan(r, set) = <<"add", "save">>
    BY <2>1, JoinOneOne, Zenon
  <2>q. QED
    BY <2>2
<1>4. CASE ~added
  <2>1. Plan(r, set) = <<"save">>
    BY <1>1, <1>4, JoinEmpty
  <2>q. QED
    BY <1>2, <1>4, <2>1
<1>q. QED
  BY <1>3, <1>4

-----------------------------------------------------------------------------
(* Steps.                                                                  *)

\* A request that has done the first of its operations.
LEMMA LeftIs ==
    ASSUME NEW x \in Request, x.todo # <<>>
    PROVE  LET n == Left(x, Tail(x.todo))
           IN /\ n \in Request
              /\ Tail(x.todo) = <<>> => n = NoRequest
              /\ Tail(x.todo) # <<>> => /\ n.todo = Tail(x.todo) /\ n.id = x.id
                                        /\ n.expr = x.expr /\ n.cmd = x.cmd /\ n.set = x.set
<1>1. NoRequest \in Request
  BY CronAssumption DEF NoRequest, Request, SomeExpr, SomeCmd, Nothing, Edit
<1>2. Tail(x.todo) \in Seq(Operations)
  BY DEF Request
<1>q. QED
  BY <1>1, <1>2 DEF Left, Request

LEMMA ProceedIs ==
    ASSUME CronTypeOK, NEW u \in Requesters, Active(u), Proceed(u)
    PROVE  LET rest == Tail(request[u].todo)
           IN /\ request' \in [Requesters -> Request]
              /\ \A v \in Requesters \ {u} : request'[v] = request[v]
              /\ rest = <<>> => request'[u] = NoRequest
              /\ rest # <<>> => /\ request'[u].todo = rest /\ request'[u].id = request[u].id
                                /\ request'[u].expr = request[u].expr
                                /\ request'[u].cmd = request[u].cmd
                                /\ request'[u].set = request[u].set
<1>1. request[u] \in Request /\ request[u].todo # <<>>
  BY DEF CronTypeOK, Active
<1>2. request' = [request EXCEPT ![u] = Left(request[u], Tail(request[u].todo))]
  BY DEF Proceed
<1>q. QED
  BY <1>1, <1>2, LeftIs DEF CronTypeOK

\* A job that a step does not change.
LEMMA Untouched ==
    ASSUME CronTypeOK, NEW i \in Ids, Job(i), row'[i] = row[i],
           \A u \in For(i) \cup For(i)' :
              request'[u] = request[u] /\ (Reaches(u)' => Reaches(u)),
           servers' \subseteq servers, queue \subseteq queue',
           overlap \subseteq overlap', crowded \subseteq crowded', failed \subseteq failed',
           \A s \in Servers \ crowded' : tab'[s][i] = tab[s][i]
    PROVE  Job(i)'
<1>1. For(i)' = For(i) /\ \A u \in For(i) : u \in Requesters /\ request'[u] = request[u] /\ request[u].id = i
  BY DEF For, Active
<1>2. (row[i].state = "none" => row[i].at = Local)'
  BY DEF Job
<1>3. (\A s \in Servers \ crowded : s # row[i].at => tab[s][i] = None)'
  BY DEF Job
<1>4. (\A u \in For(i) : request[u].todo \in Todos(row[i]))'
  BY <1>1 DEF Job, Todos
<1>5. ASSUME i \notin overlap'
      PROVE  Alone(i)'
  <2>1. Alone(i)
    BY <1>5 DEF Job
  <2>2. (\A u, v \in For(i) : u = v)'
    BY <1>1, <2>1 DEF Alone
  <2>3. ASSUME NEW u \in For(i)
        PROVE  Duty(u)'
    <3>1. Duty(u) /\ u \in Requesters /\ request'[u] = request[u] /\ request[u].id = i
      BY <1>1, <2>1 DEF Alone
    <3>2. At(u)' = At(u) /\ WillBe(u)' = WillBe(u) /\ (Reaches(u)' => Reaches(u)) /\ At(u) = row[i].at
      BY <3>1 DEF At, WillBe
    <3>3. Wish(u) => Wish(u)'
      BY <3>1, <3>2 DEF Wish
    <3>4. At(u) \in Servers \ crowded' /\ Far(u) => Far(u)'
      BY <3>1, <3>2 DEF Far
    <3>5. Near(u) => Near(u)'
      BY <3>1, <3>2 DEF Near
    <3>q. QED
      BY <3>1, <3>2, <3>3, <3>4, <3>5 DEF Duty
  <2>4. (row[i].state # "none" /\ For(i) = {} => Done(i))'
    <3>1. SUFFICES ASSUME row[i].state # "none", For(i) = {}
                   PROVE  Done(i)'
      BY <1>1
    <3>2. Done(i)
      BY <2>1, <3>1 DEF Alone
    <3>3. LineOf(i)' = LineOf(i)
      BY DEF LineOf
    <3>4. row[i].at \in servers' \ crowded' => tab'[row[i].at][i] = tab[row[i].at][i]
      BY DEF CronTypeOK
    <3>q. QED
      BY <3>2, <3>3, <3>4 DEF Done
  <2>5. (\A s \in Servers \ crowded : tab[s][i] # Many)'
    BY <2>1 DEF Alone
  <2>q. QED
    BY <1>1, <2>2, <2>3, <2>4, <2>5 DEF Alone
<1>q. QED
  BY <1>2, <1>3, <1>4, <1>5 DEF Job

\* Crontabs that are read go on being read.
LEMMA StillRead ==
    ASSUME CronTypeOK, Reads, crowded \subseteq crowded',
           \A u \in reading' :
              /\ u \in reading
              /\ request'[u].todo # <<>> /\ Head(request'[u].todo) = Head(request[u].todo)
              /\ request'[u].id = request[u].id
              /\ request'[u].expr = request[u].expr /\ request'[u].cmd = request[u].cmd
              /\ row'[request[u].id].at = row[request[u].id].at
              /\ out'[u] = out[u]
              /\ At(u) \notin crowded' => tab'[At(u)] = tab[At(u)]
    PROVE  Reads'
<1>1. \A u \in reading' : At(u)' = At(u) /\ u \in reading
  BY DEF At
<1>2. ASSUME NEW u \in reading'
      PROVE  /\ Active(u)' /\ Head(request'[u].todo) \in {"append", "clear"}
             /\ At(u)' \in Servers
             /\ At(u)' \notin crowded' => out'[u] = Edited(u)'
  <2>1. At(u) \notin crowded' => Edited(u)' = Edited(u)
    BY <1>1 DEF Edited
  <2>q. QED
    BY <1>1, <2>1 DEF Reads, Active
<1>3. (\A u, v \in reading : u # v /\ At(u) = At(v) => At(u) \in crowded)'
  BY <1>1 DEF Reads
<1>q. QED
  BY <1>2, <1>3 DEF Reads
\* A request takes a step for its job.
LEMMA OneStep ==
    ASSUME CronTypeOK, CronInv, NEW u \in Requesters, Active(u), Proceed(u),
           NEW i \in Ids, i = request[u].id,
           UNCHANGED <<servers, overlap, crowded, failed>>,
           queue \subseteq queue', reading' \subseteq reading,
           \A j \in Ids \ {i} : /\ row'[j] = row[j]
                                /\ \A s \in Servers \ crowded : tab'[s][j] = tab[s][j],
           row'[i].at = row[i].at, row'[i].state # "none",
           \A s \in Servers \ crowded : s # row[i].at => tab'[s][i] = tab[s][i],
           Alone(i) => /\ Tail(request[u].todo) # <<>> => Duty(u)'
                       /\ Tail(request[u].todo) = <<>> => Done(i)'
                       /\ \A s \in Servers \ crowded : tab'[s][i] # Many
    PROVE  \A j \in Ids : Job(j)'
<1> DEFINE rest == Tail(request[u].todo)
<1>1. /\ request' \in [Requesters -> Request]
      /\ \A v \in Requesters \ {u} : request'[v] = request[v]
      /\ rest = <<>> => request'[u] = NoRequest
      /\ rest # <<>> => request'[u].todo = rest /\ request'[u].id = i
  BY ProceedIs
<1>2. NoRequest.id \notin Ids /\ NoRequest.todo = <<>>
  BY CronAssumption DEF NoRequest
<1>3. u \in For(i) /\ For(i)' \subseteq For(i) /\ (u \in For(i)' <=> rest # <<>>)
  <2>1. u \in For(i)
    BY DEF For
  <2>2. u \in For(i)' <=> rest # <<>>
    BY <1>1, <1>2 DEF For, Active
  <2>3. \A v \in Requesters \ {u} : v \in For(i)' <=> v \in For(i)
    BY <1>1 DEF For, Active
  <2>4. For(i)' \subseteq Requesters /\ For(i) \subseteq Requesters
    BY DEF For
  <2>q. QED
    BY <2>1, <2>2, <2>3, <2>4
<1>4. ASSUME NEW j \in Ids \ {i}
      PROVE  Job(j)'
  <2>1. ASSUME NEW v \in For(j) \cup For(j)'
        PROVE  request'[v] = request[v] /\ (Reaches(v)' => Reaches(v))
    <3>1. v # u /\ request'[v] = request[v] /\ request[v].id = j
      BY <1>1, <1>2, <2>1 DEF For
    <3>q. QED
      BY <2>1, <3>1 DEF Reaches, At
  <2>2. Job(j)
    BY DEF CronInv
  <2>q. QED
    BY <2>1, <2>2, Untouched, SMTT(30)
<1>5. Job(i)'
  <2>1. Job(i) /\ (i \notin overlap => Alone(i))
    BY DEF CronInv, Job
  <2>2. (row[i].state = "none" => row[i].at = Local)'
    OBVIOUS
  <2>3. (\A s \in Servers \ crowded : s # row[i].at => tab[s][i] = None)'
    BY <2>1 DEF Job
  <2>4. (\A v \in For(i) : request[v].todo \in Todos(row[i]))'
    <3>1. Todos(row[i])' = Todos(row[i]) /\ Todos(row[i]) \in {FarTodos, NearTodos}
      BY DEF Todos
    <3>2. \A v \in For(i) : request[v].todo \in Todos(row[i]) /\ v \in Requesters
      BY <2>1 DEF Job, For
    <3>3. rest # <<>> => rest \in Todos(row[i])
      <4>1. request[u].todo \in Todos(row[i])
        BY <1>3, <3>2
      <4>2. CASE Todos(row[i]) = FarTodos
        BY <4>1, <4>2, FarTail
      <4>3. CASE Todos(row[i]) = NearTodos
        BY <4>1, <4>3, NearTail DEF NearTodos
      <4>q. QED
        BY <3>1, <4>2, <4>3
    <3>q. QED
      BY <1>1, <1>3, <3>1, <3>2, <3>3
  <2>5. ASSUME i \notin overlap'
        PROVE  Alone(i)'
    <3>1. Alone(i)
      BY <2>1, <2>5
    <3>2. For(i) = {u}
      BY <1>3, <3>1 DEF Alone
    <3>3. (\A v, w \in For(i) : v = w)'
      BY <1>3, <3>2
    <3>4. (\A v \in For(i) : Duty(v))'
      BY <1>3, <3>1, <3>2
    <3>5. (row[i].state # "none" /\ For(i) = {} => Done(i))'
      BY <1>3, <3>1, <3>2
    <3>q. QED
      BY <3>1, <3>3, <3>4, <3>5 DEF Alone
  <2>q. QED
    BY <2>2, <2>3, <2>4, <2>5 DEF Job
<1>q. QED
  BY <1>4, <1>5

\* What the invariant says of a request alone at its job.
LEMMA MyJob ==
    ASSUME CronTypeOK, CronInv, NEW u \in Requesters, Active(u)
    PROVE  LET i == request[u].id
           IN /\ i \in Ids /\ request[u] \in Request /\ row[i] \in Row /\ row[i].state # "none"
              /\ u \in For(i)
              /\ row[i].at # Local => At(u) \in Servers /\ request[u].todo \in FarTodos
              /\ row[i].at = Local => At(u) = Local /\ request[u].todo \in NearTodos
              /\ Alone(i) => Duty(u)
<1> DEFINE i == request[u].id
<1>1. i \in Ids /\ request[u] \in Request /\ row[i] \in Row /\ row[i].state # "none"
  BY DEF CronTypeOK, Active
<1>2. u \in For(i)
  BY DEF For
<1>3. request[u].todo \in Todos(row[i])
  BY <1>1, <1>2 DEF CronInv, Job
<1>4. At(u) = row[i].at /\ row[i].at \in Servers \cup {Local}
  BY <1>1 DEF At, Row
<1>5. Alone(i) => Duty(u)
  BY <1>2 DEF Alone
<1>q. QED
  BY <1>1, <1>2, <1>3, <1>4, <1>5 DEF Todos

\* The step keeps the types.
LEMMA OneType ==
    ASSUME CronTypeOK, NEW u \in Requesters, Active(u), Proceed(u),
           UNCHANGED <<servers, made, overlap, crowded, failed>>,
           row' \in [Ids -> Row], queue' \subseteq [id: Ids, expr: Exprs],
           tab' \in [Servers -> Crontab], reading' \subseteq reading,
           out' \in [Requesters -> Crontab],
           \A i \in Ids : row[i].state # "none" => row'[i].state # "none"
    PROVE  CronTypeOK'
<1>1. /\ request' \in [Requesters -> Request]
      /\ \A v \in Requesters \ {u} : request'[v] = request[v]
      /\ request'[u].todo # <<>> => request'[u].id = request[u].id
  BY ProceedIs DEF NoRequest
<1>2. (\A v \in Requesters : request[v].todo # <<>> =>
            request[v].id \in Ids /\ row[request[v].id].state # "none")'
  BY <1>1 DEF CronTypeOK, Active
<1>q. QED
  BY <1>1, <1>2 DEF CronTypeOK

\* and the crontabs that others read, when it is not one of a command.
LEMMA OneReads ==
    ASSUME CronTypeOK, Reads, NEW u \in Requesters, Active(u), Proceed(u), u \notin reading,
           UNCHANGED <<tab, reading, out, crowded>>,
           \A i \in Ids : row'[i].at = row[i].at
    PROVE  Reads'
<1>1. \A v \in reading : v # u /\ v \in Requesters /\ request'[v] = request[v] /\ request[v].id \in Ids
                       /\ request[v].todo # <<>>
  BY ProceedIs DEF CronTypeOK, Reads, Active
<1>q. QED
  BY <1>1, StillRead

-----------------------------------------------------------------------------
(* The queue.                                                              *)

LEMMA AddJobStep ==
    ASSUME CronTypeOK, CronInv, NEW u \in Requesters, AddJob(u),
           NEW i \in Ids, i = request[u].id
    PROVE  CronTypeOK' /\ CronInv'
<1> DEFINE todo == request[u].todo
<1>1. /\ Active(u) /\ Head(todo) = "add" /\ Proceed(u)
      /\ queue' = queue \cup {[id |-> i, expr |-> request[u].expr]}
      /\ UNCHANGED <<row, servers, tab, made, reading, out, overlap, crowded, failed>>
  BY DEF AddJob, Turn, history
<1>2. /\ i \in Ids /\ request[u] \in Request /\ row[i] \in Row /\ row[i].state # "none"
      /\ At(u) = Local /\ todo \in NearTodos
      /\ Alone(i) => Duty(u)
  BY <1>1, MyJob, FarTail
<1>3. \/ todo = <<"add">> /\ Tail(todo) = <<>>
      \/ todo = <<"add", "save">> /\ Tail(todo) = <<"save">>
  BY <1>1, <1>2, NearTail
<1>4. /\ request' \in [Requesters -> Request]
      /\ \A v \in Requesters \ {u} : request'[v] = request[v]
      /\ Tail(todo) = <<>> => request'[u] = NoRequest
      /\ Tail(todo) # <<>> => /\ request'[u].todo = Tail(todo) /\ request'[u].id = i
                              /\ request'[u].expr = request[u].expr
                              /\ request'[u].cmd = request[u].cmd
                              /\ request'[u].set = request[u].set
  BY <1>1, ProceedIs
<1>5. CronTypeOK'
  <2>1. queue' \subseteq [id: Ids, expr: Exprs]
    BY <1>1, <1>2 DEF CronTypeOK, Request
  <2>q. QED
    BY <1>1, <2>1, OneType DEF CronTypeOK
<1>6. Reads'
  <2>1. u \notin reading
    BY <1>1 DEF CronInv, Reads
  <2>q. QED
    BY <1>1, <2>1, OneReads DEF CronInv
<1>7. ASSUME Alone(i)
      PROVE  /\ Tail(todo) # <<>> => Duty(u)'
             /\ Tail(todo) = <<>> => Done(i)'
  <2>1. Duty(u) /\ row[i].at = Local /\ row[i].state = "there"
    BY <1>2, <1>7 DEF Duty, At
  <2>2. ASSUME Tail(todo) # <<>>
        PROVE  Duty(u)'
    <3>1. WillBe(u)' = WillBe(u) /\ At(u)' = Local
      BY <1>1, <1>2, <1>4, <2>2 DEF WillBe, At
    <3>2. i \notin failed => Wish(u)'
      <4>1. /\ Tail(todo) = <<"save">>
            /\ <<"save">> \notin Leaves \cup {<<"append">>, <<"add">>, <<"clear">>}
        BY <1>3, <2>2 DEF Leaves
      <4>2. request'[u].todo \notin Leaves \cup {<<"append">>, <<"add">>, <<"clear">>}
        BY <1>4, <2>2, <4>1
      <4>3. i \notin failed => /\ request[u].expr = New(request[u].set.expr, row[i].expr)
                              /\ request[u].cmd = New(request[u].set.cmd, row[i].cmd)
        BY <2>1 DEF Duty, Wish
      <4>q. QED
        BY <1>1, <1>4, <2>2, <4>2, <4>3 DEF Wish
    <3>3. Near(u)'
      BY <1>1, <1>4, <2>2 DEF Near
    <3>q. QED
      BY <1>1, <1>4, <2>1, <2>2, <3>1, <3>2, <3>3, CronAssumption DEF Duty
  <2>3. ASSUME Tail(todo) = <<>>
        PROVE  Done(i)'
    <3>1. i \notin failed => request[u].expr = row[i].expr
      <4>1. todo \in {<<"append">>, <<"add">>}
        <5>1. <<"save">> # <<>>
          OBVIOUS
        <5>q. QED
          BY <1>3, <2>3, <5>1
      <4>2. i \notin failed => request[u].set = Nothing /\ request[u].expr = New(request[u].set.expr, row[i].expr)
        BY <2>1, <4>1 DEF Duty, Wish
      <4>q. QED
        BY <4>2 DEF Nothing, New
    <3>2. row[i].at \notin servers
      BY <2>1, CronAssumption DEF CronTypeOK
    <3>3. (row[i].at = Local /\ i \notin failed /\ row[i].state = "there" /\ row[i].enabled = "on" =>
              [id |-> i, expr |-> row[i].expr] \in queue)'
      BY <1>1, <3>1
    <3>4. row'[i].at \notin servers' \ crowded'
      BY <1>1, <3>2
    <3>q. QED
      BY <3>3, <3>4 DEF Done
  <2>q. QED
    BY <2>2, <2>3
<1>8. \A j \in Ids : Job(j)'
  <2>1. Alone(i) => \A s \in Servers \ crowded : tab'[s][i] # Many
    BY <1>1 DEF Alone
  <2>2. /\ row' = row /\ tab' = tab /\ reading' = reading /\ queue \subseteq queue'
        /\ UNCHANGED <<servers, overlap, crowded, failed>>
    BY <1>1
  <2>3. \A j \in Ids \ {i} : row'[j] = row[j] /\ \A s \in Servers \ crowded : tab'[s][j] = tab[s][j]
    BY <2>2
  <2>4. \A s \in Servers \ crowded : s # row[i].at => tab'[s][i] = tab[s][i]
    BY <2>2
  <2>5. row'[i].at = row[i].at /\ row'[i].state # "none" /\ reading' \subseteq reading
    BY <1>2, <2>2
  <2>q. QED
    BY <1>1, <1>2, <1>7, <2>1, <2>2, <2>3, <2>4, <2>5, OneStep
<1>q. QED
  BY <1>5, <1>6, <1>8 DEF CronInv
-----------------------------------------------------------------------------
(* The crontabs.                                                           *)

\* What a request will enter is what its row will say, also after a command.
LEMMA WishKept ==
    ASSUME CronTypeOK, NEW u \in Requesters, Active(u), Proceed(u),
           NEW i \in Ids, i = request[u].id, row' = row,
           request[u].todo \in FarTodos, Head(request[u].todo) \in {"append", "clear"},
           Tail(request[u].todo) # <<>>, Wish(u)
    PROVE  Wish(u)'
<1> DEFINE todo == request[u].todo
           rest == Tail(todo)
<1>1. /\ request'[u].todo = rest /\ request'[u].id = i /\ request'[u].expr = request[u].expr
      /\ request'[u].cmd = request[u].cmd /\ request'[u].set = request[u].set
  BY ProceedIs
<1>2. rest \notin {<<"append">>, <<"add">>} /\ rest # <<"clear">> /\ (rest \in Leaves => todo \in Leaves)
  BY FarTail DEF Leaves
<1>3. WillBe(u)' = WillBe(u)
  BY <1>1 DEF WillBe
<1>4. request'[u].todo \in Leaves => WillBe(u)' = "off"
  BY <1>1, <1>2, <1>3 DEF Wish
<1>5. request'[u].todo \notin {<<"append">>, <<"add">>} /\ request'[u].todo # <<"clear">>
  BY <1>1, <1>2
<1>6. request[u].expr = New(request[u].set.expr, row[i].expr) /\ request[u].cmd = New(request[u].set.cmd, row[i].cmd)
  BY DEF Wish
<1>q. QED
  BY <1>1, <1>4, <1>5, <1>6 DEF Wish

LEMMA SkipClearStep ==
    ASSUME CronTypeOK, CronInv, NEW u \in Requesters, SkipClear(u),
           NEW i \in Ids, i = request[u].id
    PROVE  CronTypeOK' /\ CronInv'
<1> DEFINE todo == request[u].todo
<1>1. /\ Active(u) /\ Head(todo) = "clear" /\ Proceed(u)
      /\ u \notin reading /\ At(u) \notin servers
      /\ UNCHANGED <<row, servers, queue, tab, made, reading, out, overlap, crowded, failed>>
  BY DEF SkipClear, Turn, history
<1>2. /\ request[u] \in Request /\ row[i] \in Row /\ row[i].state # "none"
      /\ row[i].at # Local /\ At(u) = row[i].at /\ todo \in FarTodos
      /\ Alone(i) => Duty(u)
  BY <1>1, MyJob, NearTail DEF At
<1>3. CronTypeOK'
  BY <1>1, OneType DEF CronTypeOK
<1>4. Reads'
  BY <1>1, OneReads DEF CronInv
<1>5. ASSUME Alone(i)
      PROVE  /\ Tail(todo) # <<>> => Duty(u)'
             /\ Tail(todo) = <<>> => Done(i)'
  <2>1. Duty(u) /\ row[i].state = "there"
    BY <1>2, <1>5 DEF Duty
  <2>2. ASSUME Tail(todo) # <<>>
        PROVE  Duty(u)'
    <3>1. request'[u].id = i
      BY <1>1, <2>2, ProceedIs
    <3>2. At(u)' = At(u) /\ ~Reaches(u)'
      BY <1>1, <3>1 DEF At, Reaches
    <3>3. i \notin failed => Wish(u)'
      BY <1>1, <1>2, <2>1, <2>2, WishKept DEF Duty
    <3>4. Far(u)'
      BY <1>1, <3>2 DEF Far
    <3>q. QED
      BY <1>1, <1>2, <2>1, <3>1, <3>2, <3>3, <3>4 DEF Duty
  <2>3. ASSUME Tail(todo) = <<>>
        PROVE  Done(i)'
    <3>1. row'[i].at # Local /\ row'[i].at \notin servers'
      BY <1>1, <1>2
    <3>q. QED
      BY <3>1 DEF Done
  <2>q. QED
    BY <2>2, <2>3
<1>6. \A j \in Ids : Job(j)'
  <2>1. Alone(i) => \A s \in Servers \ crowded : tab'[s][i] # Many
    BY <1>1 DEF Alone
  <2>2. \A j \in Ids \ {i} : row'[j] = row[j] /\ \A s \in Servers \ crowded : tab'[s][j] = tab[s][j]
    BY <1>1
  <2>3. \A s \in Servers \ crowded : s # row[i].at => tab'[s][i] = tab[s][i]
    BY <1>1
  <2>4. row'[i].at = row[i].at /\ row'[i].state # "none" /\ reading' \subseteq reading
        /\ queue \subseteq queue' /\ UNCHANGED <<servers, overlap, crowded, failed>>
    BY <1>1, <1>2
  <2>q. QED
    BY <1>1, <1>5, <2>1, <2>2, <2>3, <2>4, OneStep
<1>q. QED
  BY <1>3, <1>4, <1>6 DEF CronInv

LEMMA EditedType ==
    ASSUME CronTypeOK, NEW u \in Requesters, request[u].id \in Ids, At(u) \in Servers
    PROVE  Edited(u) \in Crontab
  BY DEF CronTypeOK, Edited, Crontab, Request, Line

LEMMA ReadTabStep ==
    ASSUME CronTypeOK, CronInv, NEW u \in Requesters, ReadTab(u),
           NEW i \in Ids, i = request[u].id
    PROVE  CronTypeOK' /\ CronInv'
<1>1. /\ Active(u) /\ Head(request[u].todo) \in {"append", "clear"}
      /\ u \notin reading /\ At(u) \in servers
      /\ reading' = reading \cup {u}
      /\ out' = [out EXCEPT ![u] = Edited(u)]
      /\ crowded' = IF \E v \in reading : At(v) = At(u) THEN crowded \cup {At(u)} ELSE crowded
      /\ UNCHANGED <<row, servers, queue, tab, request, made, overlap, failed>>
  BY DEF ReadTab, Turn
<1>2. At(u) \in Servers
  BY <1>1 DEF CronTypeOK
<1>3. CronTypeOK'
  BY <1>1, <1>2, EditedType DEF CronTypeOK
<1>4. \A v \in Requesters : At(v)' = At(v) /\ Edited(v)' = Edited(v) /\ (Active(v)' <=> Active(v))
  BY <1>1 DEF At, Edited, Active
<1>5. Reads'
  <2>1. ASSUME NEW v \in reading'
        PROVE  /\ Active(v)' /\ Head(request'[v].todo) \in {"append", "clear"}
               /\ At(v)' \in Servers
               /\ At(v)' \notin crowded' => out'[v] = Edited(v)'
    <3>1. v \in Requesters /\ v \in reading \cup {u}
      BY <1>1, <2>1 DEF CronTypeOK
    <3>2. CASE v = u
      BY <1>1, <1>2, <1>4, <3>2 DEF CronTypeOK
    <3>3. CASE v # u
      <4>1. v \in reading /\ out'[v] = out[v] /\ crowded \subseteq crowded'
        BY <1>1, <3>1, <3>3 DEF CronTypeOK
      <4>q. QED
        BY <1>1, <1>4, <3>1, <4>1 DEF CronInv, Reads
    <3>q. QED
      BY <3>2, <3>3
  <2>2. ASSUME NEW v \in reading', NEW w \in reading', v # w, At(v)' = At(w)'
        PROVE  At(v)' \in crowded'
    <3>1. v \in Requesters /\ w \in Requesters /\ v \in reading \cup {u} /\ w \in reading \cup {u}
      BY <1>1, <2>2 DEF CronTypeOK
    <3>2. At(v) = At(w) /\ At(v)' = At(v)
      BY <1>4, <2>2, <3>1
    <3>q. QED
      BY <1>1, <2>2, <3>1, <3>2 DEF CronInv, Reads
  <2>q. QED
    BY <2>1, <2>2 DEF Reads
<1>6. ASSUME NEW j \in Ids
      PROVE  Job(j)'
  <2>1. \A v \in For(j) \cup For(j)' : request'[v] = request[v] /\ (Reaches(v)' => Reaches(v))
    BY <1>1, <1>4 DEF Reaches, For
  <2>2. Job(j) /\ \A s \in Servers \ crowded' : tab'[s][j] = tab[s][j]
    BY <1>1 DEF CronInv
  <2>3. row'[j] = row[j] /\ servers' \subseteq servers /\ queue \subseteq queue' /\ overlap \subseteq overlap'
        /\ crowded \subseteq crowded' /\ failed \subseteq failed'
    BY <1>1
  <2>q. QED
    BY <2>1, <2>2, <2>3, Untouched
<1>q. QED
  BY <1>3, <1>5, <1>6 DEF CronInv

\* What a command does to a crontab on which it is alone.
LEMMA Written ==
    ASSUME CronTypeOK, Reads, NEW u \in Requesters, WriteTab(u),
           NEW i \in Ids, i = request[u].id
    PROVE  /\ Active(u) /\ Head(request[u].todo) \in {"append", "clear"} /\ At(u) \in Servers
           /\ tab' \in [Servers -> Crontab]
           /\ \A s \in Servers \ {At(u)} : tab'[s] = tab[s]
           /\ At(u) \notin crowded =>
                 /\ \A j \in Ids \ {i} : tab'[At(u)][j] = tab[At(u)][j]
                 /\ Head(request[u].todo) = "clear" => tab'[At(u)][i] = None
                 /\ Head(request[u].todo) = "append" /\ tab[At(u)][i] = None =>
                       tab'[At(u)][i] = [expr |-> request[u].expr, cmd |-> request[u].cmd]
<1>1. u \in reading /\ tab' = [tab EXCEPT ![At(u)] = out[u]]
  BY DEF WriteTab
<1>2. /\ Active(u) /\ Head(request[u].todo) \in {"append", "clear"} /\ At(u) \in Servers
      /\ At(u) \notin crowded => out[u] = Edited(u)
  BY <1>1 DEF Reads
<1>3. out[u] \in Crontab /\ tab \in [Servers -> Crontab]
  BY DEF CronTypeOK
<1>4. tab'[At(u)] = out[u] /\ tab' \in [Servers -> Crontab] /\ \A s \in Servers \ {At(u)} : tab'[s] = tab[s]
  BY <1>1, <1>2, <1>3
<1>5. ASSUME At(u) \notin crowded
      PROVE  /\ \A j \in Ids \ {i} : tab'[At(u)][j] = tab[At(u)][j]
             /\ Head(request[u].todo) = "clear" => tab'[At(u)][i] = None
             /\ Head(request[u].todo) = "append" /\ tab[At(u)][i] = None =>
                   tab'[At(u)][i] = [expr |-> request[u].expr, cmd |-> request[u].cmd]
  <2>1. tab'[At(u)] = Edited(u) /\ tab[At(u)] \in Crontab
    BY <1>2, <1>3, <1>4, <1>5
  <2>q. QED
    BY <2>1 DEF Edited, Crontab
<1>q. QED
  BY <1>2, <1>4, <1>5

LEMMA WriteTabStep ==
    ASSUME CronTypeOK, CronInv, NEW u \in Requesters, WriteTab(u),
           NEW i \in Ids, i = request[u].id
    PROVE  CronTypeOK' /\ CronInv'
<1> DEFINE todo == request[u].todo
<1>1. /\ u \in reading /\ Proceed(u)
      /\ reading' = reading \ {u} /\ out' = [out EXCEPT ![u] = Empty]
      /\ UNCHANGED <<row, servers, queue, made, overlap, crowded, failed>>
  BY DEF WriteTab, history
<1>2. /\ Active(u) /\ Head(todo) \in {"append", "clear"} /\ At(u) \in Servers
      /\ tab' \in [Servers -> Crontab]
      /\ \A s \in Servers \ {At(u)} : tab'[s] = tab[s]
      /\ At(u) \notin crowded =>
            /\ \A j \in Ids \ {i} : tab'[At(u)][j] = tab[At(u)][j]
            /\ Head(todo) = "clear" => tab'[At(u)][i] = None
            /\ Head(todo) = "append" /\ tab[At(u)][i] = None =>
                  tab'[At(u)][i] = [expr |-> request[u].expr, cmd |-> request[u].cmd]
  BY Written DEF CronInv
<1>3. /\ request[u] \in Request /\ row[i] \in Row /\ row[i].state # "none"
      /\ row[i].at # Local /\ At(u) = row[i].at /\ todo \in FarTodos
      /\ Alone(i) => Duty(u)
  BY <1>2, MyJob, NearTail DEF At
<1>4. CronTypeOK'
  <2>1. out' \in [Requesters -> Crontab]
    BY <1>1 DEF CronTypeOK, Empty, Crontab
  <2>q. QED
    BY <1>1, <1>2, <2>1, OneType DEF CronTypeOK
<1>5. Reads'
  <2>1. ASSUME NEW v \in reading'
        PROVE  /\ v \in reading /\ v \in Requesters /\ request'[v] = request[v] /\ out'[v] = out[v]
               /\ request[v].todo # <<>>
               /\ At(v) \notin crowded' => tab'[At(v)] = tab[At(v)]
    <3>1. v # u /\ v \in reading /\ v \in Requesters
      BY <1>1, <2>1 DEF CronTypeOK
    <3>2. At(v) \in Servers /\ (At(v) = At(u) => At(v) \in crowded) /\ Active(v)
      BY <1>1, <3>1 DEF CronInv, Reads
    <3>q. QED
      BY <1>1, <1>2, <3>1, <3>2, ProceedIs DEF CronTypeOK, Active
  <2>2. crowded \subseteq crowded' /\ row' = row
    BY <1>1
  <2>q. QED
    BY <2>1, <2>2, StillRead DEF CronInv
<1>6. ASSUME Alone(i)
      PROVE  /\ Tail(todo) # <<>> => Duty(u)'
             /\ Tail(todo) = <<>> => Done(i)'
             /\ \A s \in Servers \ crowded : tab'[s][i] # Many
  <2>1. /\ Duty(u) /\ row[i].state = "there"
        /\ i \notin failed => Wish(u)
        /\ At(u) \notin crowded => Far(u)
    BY <1>2, <1>3, <1>6 DEF Duty
  <2>2. At(u) \notin crowded =>
            /\ Head(todo) = "clear" => tab'[At(u)][i] = None
            /\ Head(todo) = "append" =>
                  tab'[At(u)][i] = [expr |-> request[u].expr, cmd |-> request[u].cmd]
    BY <1>1, <1>2, <2>1 DEF Far, Reaches
  <2>3. ASSUME Tail(todo) # <<>>
        PROVE  Duty(u)'
    <3>1. /\ request'[u].id = i /\ request'[u].todo = Tail(todo)
          /\ request'[u].expr = request[u].expr /\ request'[u].cmd = request[u].cmd
          /\ request'[u].set = request[u].set
      BY <1>1, <1>2, <2>3, ProceedIs
    <3>2. At(u)' = At(u) /\ WillBe(u)' = WillBe(u)
      BY <1>1, <3>1 DEF At, WillBe
    <3>3. i \notin failed => Wish(u)'
      BY <1>1, <1>2, <1>3, <2>1, <2>3, WishKept
    <3>4. ASSUME At(u) \notin crowded
          PROVE  Far(u)'
      <4>1. CASE Head(todo) = "clear"
        <5>1. tab'[At(u)][i] = None
          BY <2>2, <3>4, <4>1
        <5>2. Tail(todo) = <<"save">> /\ i \notin failed => WillBe(u) = "off"
          BY <1>3, <2>1, <4>1, FarTail DEF Wish
        <5>q. QED
          BY <1>1, <3>1, <3>2, <5>1, <5>2 DEF Far
      <4>2. CASE Head(todo) = "append"
        <5>1. tab'[At(u)][i] = [expr |-> request[u].expr, cmd |-> request[u].cmd]
          BY <2>2, <3>4, <4>2
        <5>2. Head(Tail(todo)) # "append" /\ Tail(todo) # <<"delete">>
          BY <1>3, <2>3, <4>2, FarTail
        <5>q. QED
          BY <1>1, <3>1, <3>2, <5>1, <5>2 DEF Far
      <4>q. QED
        BY <1>2, <4>1, <4>2
    <3>q. QED
      BY <1>1, <1>3, <2>1, <3>1, <3>2, <3>3, <3>4 DEF Duty
  <2>4. ASSUME Tail(todo) = <<>>
        PROVE  Done(i)'
    <3>1. row'[i].at # Local /\ row'[i].at = At(u) /\ row'[i].state = "there"
      BY <1>1, <1>3, <2>1
    <3>2. ASSUME At(u) \notin crowded, i \notin failed
          PROVE  tab'[At(u)][i] = LineOf(i)'
      <4>1. Wish(u) /\ todo # <<"clear">>
        BY <2>1, <3>2 DEF Wish
      <4>2. todo = <<"append">> /\ Head(todo) = "append"
        BY <1>2, <1>3, <2>4, <4>1, FarTail
      <4>3. todo \in {<<"append">>, <<"add">>}
        BY <4>2
      <4>4. request[u].set = Nothing
        BY <4>1, <4>3 DEF Wish
      <4>5. request[u].expr = row[i].expr /\ request[u].cmd = row[i].cmd
        BY <4>1, <4>4 DEF Wish, Nothing, New
      <4>q. QED
        BY <1>1, <2>2, <3>2, <4>2, <4>5 DEF LineOf
    <3>q. QED
      BY <1>1, <3>1, <3>2 DEF Done
  <2>5. ASSUME NEW s \in Servers \ crowded
        PROVE  tab'[s][i] # Many
    <3>1. [expr |-> request[u].expr, cmd |-> request[u].cmd] \in Line
      BY <1>3 DEF Request, Line
    <3>2. CASE s = At(u)
      BY <1>2, <2>2, <2>5, <3>1, <3>2, CronAssumption
    <3>3. CASE s # At(u)
      BY <1>2, <1>6, <2>5, <3>3 DEF Alone
    <3>q. QED
      BY <3>2, <3>3
  <2>q. QED
    BY <2>3, <2>4, <2>5
<1>7. \A j \in Ids : Job(j)'
  <2>1. \A j \in Ids \ {i} : row'[j] = row[j] /\ \A s \in Servers \ crowded : tab'[s][j] = tab[s][j]
    BY <1>1, <1>2
  <2>2. \A s \in Servers \ crowded : s # row[i].at => tab'[s][i] = tab[s][i]
    BY <1>2, <1>3
  <2>3. row'[i].at = row[i].at /\ row'[i].state # "none" /\ reading' \subseteq reading
        /\ queue \subseteq queue' /\ UNCHANGED <<servers, overlap, crowded, failed>>
    BY <1>1, <1>3
  <2>q. QED
    BY <1>1, <1>2, <1>6, <2>1, <2>2, <2>3, OneStep
<1>q. QED
  BY <1>4, <1>5, <1>7 DEF CronInv
-----------------------------------------------------------------------------
(* The rows.                                                               *)

LEMMA SaveStep ==
    ASSUME CronTypeOK, CronInv, NEW u \in Requesters, Save(u),
           NEW i \in Ids, i = request[u].id
    PROVE  CronTypeOK' /\ CronInv'
<1> DEFINE todo == request[u].todo
           set == request[u].set
           r == row[i]
<1>1. /\ Active(u) /\ Head(todo) = "save" /\ Proceed(u)
      /\ r.state = "there"
      /\ row' = [row EXCEPT ![i].expr = New(set.expr, @), ![i].cmd = New(set.cmd, @),
                            ![i].enabled = New(set.enabled, @)]
      /\ UNCHANGED <<servers, queue, tab, made, reading, out, overlap, crowded, failed>>
  BY DEF Save, Turn, history
<1>2. /\ request[u] \in Request /\ r \in Row
      /\ r.at # Local => At(u) \in Servers /\ todo \in FarTodos
      /\ r.at = Local => At(u) = Local /\ todo \in NearTodos
      /\ Alone(i) => Duty(u)
  BY <1>1, MyJob
<1>3. todo = <<"save">> /\ Tail(todo) = <<>>
  BY <1>1, <1>2, FarTail, NearTail
<1>4. /\ New(set.expr, r.expr) \in Exprs /\ New(set.cmd, r.cmd) \in Cmds
      /\ New(set.enabled, r.enabled) \in Switch
  BY <1>2 DEF Request, Edit, Row, New
<1>5. /\ row' \in [Ids -> Row]
      /\ \A j \in Ids \ {i} : row'[j] = row[j]
      /\ row'[i].state = "there" /\ row'[i].at = r.at
      /\ row'[i].expr = New(set.expr, r.expr) /\ row'[i].cmd = New(set.cmd, r.cmd)
      /\ row'[i].enabled = New(set.enabled, r.enabled)
  <2>1. row \in [Ids -> Row]
    BY DEF CronTypeOK
  <2> HIDE DEF set
  <2>2. row'[i] = [r EXCEPT !.expr = New(set.expr, r.expr), !.cmd = New(set.cmd, r.cmd),
                            !.enabled = New(set.enabled, r.enabled)]
    BY <1>1, <2>1 DEF Row
  <2>3. row'[i] \in Row
    BY <1>2, <1>4, <2>2 DEF Row
  <2>q. QED
    BY <1>1, <1>2, <2>1, <2>2, <2>3 DEF Row
<1>6. CronTypeOK'
  BY <1>1, <1>5, OneType DEF CronTypeOK
<1>7. Reads'
  <2>1. u \notin reading /\ \A j \in Ids : row'[j].at = row[j].at
    BY <1>1, <1>5 DEF CronInv, Reads
  <2>q. QED
    BY <1>1, <2>1, OneReads DEF CronInv
<1>8. ASSUME Alone(i)
      PROVE  Done(i)'
  <2>1. /\ i \notin failed => Wish(u)
        /\ At(u) \in Servers \ crowded => Far(u)
        /\ At(u) = Local /\ i \notin failed => Near(u)
    BY <1>2, <1>8 DEF Duty
  <2>2. /\ At(u) = r.at /\ WillBe(u) = row'[i].enabled
        /\ i \notin failed => request[u].expr = row'[i].expr /\ request[u].cmd = row'[i].cmd
    <3>1. At(u) = r.at /\ WillBe(u) = row'[i].enabled
      BY <1>5 DEF At, WillBe
    <3>2. ASSUME i \notin failed
          PROVE  request[u].expr = New(set.expr, r.expr) /\ request[u].cmd = New(set.cmd, r.cmd)
      BY <2>1, <3>2 DEF Wish
    <3>q. QED
      BY <1>5, <3>1, <3>2
  <2>3. CASE r.at = Local
    <3>1. row'[i].at \notin servers' /\ queue' = queue /\ failed' = failed
      BY <1>1, <1>5, <2>3, CronAssumption DEF CronTypeOK
    <3>2. row'[i].enabled = "on" /\ i \notin failed => [id |-> i, expr |-> row'[i].expr] \in queue
      BY <1>3, <2>1, <2>2, <2>3 DEF Near
    <3>q. QED
      BY <3>1, <3>2 DEF Done
  <2>4. CASE r.at # Local
    <3>1. /\ row'[i].at = At(u) /\ row'[i].at # Local /\ row'[i].state = "there"
          /\ UNCHANGED <<servers, tab, crowded, failed>>
      BY <1>1, <1>5, <2>2, <2>4
    <3>2. ASSUME At(u) \in servers \ crowded, i \notin failed
          PROVE  \/ tab[At(u)][i] = [expr |-> row'[i].expr, cmd |-> row'[i].cmd]
                 \/ tab[At(u)][i] = None /\ row'[i].enabled = "off"
      BY <1>2, <1>3, <2>1, <2>2, <2>4, <3>2 DEF Far, CronTypeOK
    <3>q. QED
      BY <3>1, <3>2 DEF Done, LineOf
  <2>q. QED
    BY <2>3, <2>4
<1>9. \A j \in Ids : Job(j)'
  <2>1. Alone(i) => \A s \in Servers \ crowded : tab'[s][i] # Many
    BY <1>1 DEF Alone
  <2>2. \A j \in Ids \ {i} : row'[j] = row[j] /\ \A s \in Servers \ crowded : tab'[s][j] = tab[s][j]
    BY <1>1, <1>5
  <2>3. \A s \in Servers \ crowded : s # row[i].at => tab'[s][i] = tab[s][i]
    BY <1>1
  <2>4. row'[i].at = row[i].at /\ row'[i].state # "none" /\ reading' \subseteq reading
        /\ queue \subseteq queue' /\ UNCHANGED <<servers, overlap, crowded, failed>>
    BY <1>1, <1>5
  <2> HIDE DEF r, set
  <2>q. QED
    BY <1>1, <1>3, <1>8, <2>1, <2>2, <2>3, <2>4, OneStep
<1>q. QED
  BY <1>6, <1>7, <1>9 DEF CronInv

LEMMA DeleteRowStep ==
    ASSUME CronTypeOK, CronInv, NEW u \in Requesters, DeleteRow(u),
           NEW i \in Ids, i = request[u].id
    PROVE  CronTypeOK' /\ CronInv'
<1> DEFINE todo == request[u].todo
<1>1. /\ Active(u) /\ Head(todo) = "delete" /\ Proceed(u)
      /\ row[i].state = "there"
      /\ row' = [row EXCEPT ![i] = [NoRow EXCEPT !.state = "gone", !.at = At(u)]]
      /\ UNCHANGED <<servers, queue, tab, made, reading, out, overlap, crowded, failed>>
  BY DEF DeleteRow, Turn, history
<1>2. /\ request[u] \in Request /\ row[i] \in Row
      /\ row[i].at # Local => At(u) \in Servers /\ todo \in FarTodos
      /\ row[i].at = Local => At(u) = Local /\ todo \in NearTodos
      /\ Alone(i) => Duty(u)
  BY <1>1, MyJob
<1>3. todo = <<"delete">> /\ Tail(todo) = <<>>
  BY <1>1, <1>2, FarTail, NearTail
<1>4. /\ row' \in [Ids -> Row]
      /\ \A j \in Ids \ {i} : row'[j] = row[j]
      /\ row'[i].state = "gone" /\ row'[i].at = row[i].at
  <2>1. At(u) = row[i].at
    BY DEF At
  <2>2. [NoRow EXCEPT !.state = "gone", !.at = At(u)] \in Row
    BY <1>2, <2>1, CronAssumption DEF NoRow, Row, SomeExpr, SomeCmd, Switch
  <2>3. /\ [NoRow EXCEPT !.state = "gone", !.at = At(u)].state = "gone"
        /\ [NoRow EXCEPT !.state = "gone", !.at = At(u)].at = At(u)
    BY DEF NoRow
  <2>q. QED
    BY <1>1, <2>1, <2>2, <2>3 DEF CronTypeOK
<1>5. CronTypeOK'
  BY <1>1, <1>4, OneType DEF CronTypeOK
<1>6. Reads'
  <2>1. u \notin reading /\ \A j \in Ids : row'[j].at = row[j].at
    BY <1>1, <1>4 DEF CronInv, Reads
  <2>q. QED
    BY <1>1, <2>1, OneReads DEF CronInv
<1>7. ASSUME Alone(i)
      PROVE  Done(i)'
  <2>1. At(u) \in Servers \ crowded => Far(u)
    BY <1>2, <1>7 DEF Duty
  <2>2. At(u) = row[i].at
    BY DEF At
  <2>3. At(u) \in servers \ crowded => tab[At(u)][i] = None
    BY <1>3, <2>1 DEF Far, CronTypeOK
  <2>q. QED
    BY <1>1, <1>4, <2>2, <2>3 DEF Done
<1>8. \A j \in Ids : Job(j)'
  <2>1. Alone(i) => \A s \in Servers \ crowded : tab'[s][i] # Many
    BY <1>1 DEF Alone
  <2>2. \A j \in Ids \ {i} : row'[j] = row[j] /\ \A s \in Servers \ crowded : tab'[s][j] = tab[s][j]
    BY <1>1, <1>4
  <2>3. \A s \in Servers \ crowded : s # row[i].at => tab'[s][i] = tab[s][i]
    BY <1>1
  <2>4. row'[i].at = row[i].at /\ row'[i].state # "none" /\ reading' \subseteq reading
        /\ queue \subseteq queue' /\ UNCHANGED <<servers, overlap, crowded, failed>>
    BY <1>1, <1>4
  <2>q. QED
    BY <1>1, <1>3, <1>7, <2>1, <2>2, <2>3, <2>4, OneStep
<1>q. QED
  BY <1>5, <1>6, <1>8 DEF CronInv

-----------------------------------------------------------------------------
(* Requests that end early.                                                *)

LEMMA AbandonStep ==
    ASSUME CronTypeOK, CronInv, NEW us, NEW orphans,
           us \subseteq Requesters, \A u \in us : Active(u), orphans \subseteq us \cap Commands,
           Abandon(us, orphans)
    PROVE  CronTypeOK' /\ CronInv'
<1>1. /\ request' = [u \in Requesters |->
             IF u \in orphans THEN [request[u] EXCEPT !.todo = <<Head(@)>>, !.set = Nothing]
             ELSE IF u \in us THEN NoRequest ELSE request[u]]
      /\ reading' = reading \ (us \ orphans)
      /\ out' = [u \in Requesters |-> IF u \in us \ orphans THEN Empty ELSE out[u]]
      /\ failed' = failed \cup {request[u].id : u \in us}
      /\ UNCHANGED <<row, servers, queue, tab, made, overlap, crowded>>
  BY DEF Abandon
<1>2. NoRequest \in Request /\ NoRequest.todo = <<>>
  BY CronAssumption DEF NoRequest, Request, SomeExpr, SomeCmd, Nothing, Edit
<1>3. ASSUME NEW u \in orphans
      PROVE  /\ u \in Requesters /\ Head(request[u].todo) \in {"append", "clear"}
             /\ request'[u] \in Request /\ request'[u].todo = <<Head(request[u].todo)>>
             /\ request'[u].id = request[u].id /\ request'[u].expr = request[u].expr
             /\ request'[u].cmd = request[u].cmd /\ request[u].id \in Ids
  <2>1. u \in Requesters /\ Active(u) /\ Head(request[u].todo) \in {"append", "clear"}
    BY <1>3 DEF Commands
  <2>2. request[u] \in Request /\ request[u].id \in Ids
    BY <2>1 DEF CronTypeOK, Active
  <2>3. Nothing \in Edit
    BY DEF Nothing, Edit
  <2>4. request'[u] = [request[u] EXCEPT !.todo = <<Head(request[u].todo)>>, !.set = Nothing]
    BY <1>1, <1>3, <2>1
  <2>5. <<Head(request[u].todo)>> \in Seq(Operations)
    BY <2>1 DEF Operations
  <2>q. QED
    BY <2>1, <2>2, <2>3, <2>4, <2>5 DEF Request
<1>4. \A u \in Requesters : /\ u \in us \ orphans => request'[u] = NoRequest
                            /\ u \notin us => request'[u] = request[u]
  BY <1>1
<1>5. CronTypeOK'
  <2>1. request' \in [Requesters -> Request]
    BY <1>1, <1>2, <1>3, <1>4 DEF CronTypeOK
  <2>2. out' \in [Requesters -> Crontab] /\ reading' \subseteq Requesters
    BY <1>1 DEF CronTypeOK, Empty, Crontab
  <2>3. failed' \subseteq Ids
    BY <1>1 DEF CronTypeOK, Active
  <2>4. (\A u \in Requesters : request[u].todo # <<>> =>
            request[u].id \in Ids /\ row[request[u].id].state # "none")'
    <3>1. ASSUME NEW u \in Requesters, request'[u].todo # <<>>
          PROVE  request'[u].id \in Ids /\ row[request'[u].id].state # "none"
      <4>1. u \in orphans => request'[u].id = request[u].id /\ Active(u)
        BY <1>3
      <4>q. QED
        BY <1>2, <1>4, <3>1, <4>1 DEF CronTypeOK, Active
    <3>q. QED
      BY <1>1, <3>1
  <2>q. QED
    BY <1>1, <2>1, <2>2, <2>3, <2>4 DEF CronTypeOK
<1>6. Reads'
  <2>1. ASSUME NEW u \in reading'
        PROVE  /\ u \in reading /\ u \in Requesters
               /\ request'[u].todo # <<>> /\ Head(request'[u].todo) = Head(request[u].todo)
               /\ request'[u].id = request[u].id
               /\ request'[u].expr = request[u].expr /\ request'[u].cmd = request[u].cmd
               /\ out'[u] = out[u] /\ request[u].id \in Ids
    <3>1. u \in reading /\ u \in Requesters /\ u \notin us \ orphans /\ Active(u)
      BY <1>1, <2>1 DEF CronTypeOK, CronInv, Reads
    <3>2. request[u].id \in Ids /\ out'[u] = out[u] /\ request[u].todo # <<>>
      BY <1>1, <3>1 DEF CronTypeOK, Active
    <3>q. QED
      BY <1>3, <1>4, <3>1, <3>2
  <2>2. crowded \subseteq crowded' /\ row' = row /\ tab' = tab
    BY <1>1
  <2>q. QED
    BY <2>1, <2>2, StillRead DEF CronInv
<1>7. ASSUME NEW j \in Ids
      PROVE  Job(j)'
  <2>1. Job(j) /\ row'[j] = row[j] /\ tab' = tab /\ servers' = servers /\ queue' = queue
        /\ overlap' = overlap /\ crowded' = crowded /\ failed \subseteq failed' /\ reading' \subseteq reading
    BY <1>1 DEF CronInv
  <2>2. ASSUME NEW u \in For(j)'
        PROVE  /\ u \in Requesters /\ u \in For(j) /\ At(u)' = At(u) /\ (Reaches(u)' => Reaches(u))
               /\ request'[u].id = j
               /\ u \notin orphans => request'[u] = request[u]
    <3>1. u \in Requesters /\ request'[u].todo # <<>> /\ request'[u].id = j
      BY <2>2 DEF For, Active
    <3>2. u \in orphans => Active(u)
      OBVIOUS
    <3>3. request'[u].id = request[u].id /\ Active(u) /\ (u \notin orphans => request'[u] = request[u])
      BY <1>2, <1>3, <1>4, <3>1, <3>2 DEF Active
    <3>q. QED
      BY <1>1, <2>1, <3>1, <3>3 DEF For, At, Reaches
  <2>3. CASE \E u \in us : request[u].id = j
    <3>1. j \in failed' /\ For(j) # {}
      BY <1>1, <2>3 DEF For
    <3>2. (\A u \in For(j) : request[u].todo \in Todos(row[j]))'
      <4>1. ASSUME NEW u \in For(j)'
            PROVE  request'[u].todo \in Todos(row[j])
        <5>1. request[u].todo \in Todos(row[j]) /\ (Todos(row[j]) = NearTodos \/ Todos(row[j]) = FarTodos)
          BY <2>1, <2>2, <4>1 DEF Job, Todos
        <5>2. CASE u \in orphans
          <6>1. request[u].todo \notin NearTodos
            BY <1>3, <5>2, NearTail
          <6>q. QED
            BY <1>3, <5>1, <5>2, <6>1, FarTail
        <5>3. CASE u \notin orphans
          BY <2>2, <4>1, <5>1, <5>3
        <5>q. QED
          BY <5>2, <5>3
      <4>q. QED
        BY <2>1, <4>1 DEF Todos
    <3>3. ASSUME j \notin overlap'
          PROVE  Alone(j)'
      <4>1. Alone(j)
        BY <2>1, <3>3 DEF Job
      <4>2. (\A u, v \in For(j) : u = v)'
        BY <2>2, <4>1 DEF Alone
      <4>3. ASSUME NEW u \in For(j)'
            PROVE  Duty(u)'
        <5>1. Duty(u) /\ request[u].id = j /\ request'[u].id = j /\ At(u)' = At(u)
          BY <2>2, <4>1, <4>3 DEF Alone, For
        <5>2. ASSUME Far(u)
              PROVE  Far(u)'
          <6>1. CASE u \in orphans
            <7>1. /\ request'[u].todo = <<Head(request[u].todo)>>
                  /\ Head(request[u].todo) \in {"append", "clear"}
              BY <1>3, <6>1
            <7>2. /\ Head(request'[u].todo) = Head(request[u].todo)
                  /\ request'[u].todo # <<"delete">> /\ request'[u].todo # <<"save">>
              BY <7>1
            <7>q. QED
              BY <2>1, <2>2, <4>3, <5>1, <5>2, <7>2 DEF Far
          <6>2. CASE u \notin orphans
            <7>1. request'[u] = request[u]
              BY <2>2, <4>3, <6>2
            <7>q. QED
              BY <2>1, <2>2, <3>1, <4>3, <5>1, <5>2, <7>1 DEF Far
          <6>q. QED
            BY <6>1, <6>2
        <5>q. QED
          BY <2>1, <3>1, <5>1, <5>2 DEF Duty
      <4>4. row[j].state = "there"
        BY <3>1, <4>1 DEF Alone, Duty, For
      <4>5. Done(j)'
        BY <2>1, <3>1, <4>4 DEF Done
      <4>6. (\A s \in Servers \ crowded : tab[s][j] # Many)'
        BY <2>1, <4>1 DEF Alone
      <4>q. QED
        BY <4>2, <4>3, <4>5, <4>6 DEF Alone
    <3>4. (row[j].state = "none" => row[j].at = Local)'
          /\ (\A s \in Servers \ crowded : s # row[j].at => tab[s][j] = None)'
      BY <2>1 DEF Job
    <3>q. QED
      BY <3>2, <3>3, <3>4 DEF Job
  <2>4. CASE \A u \in us : request[u].id # j
    <3>1. \A u \in For(j) : u \in Requesters /\ request[u].id = j /\ request'[u] = request[u]
      BY <1>4, <2>4 DEF For
    <3>2. \A u \in For(j) \cup For(j)' : request'[u] = request[u] /\ (Reaches(u)' => Reaches(u))
      BY <2>1, <2>2, <3>1 DEF Reaches, At
    <3>q. QED
      BY <2>1, <3>2, Untouched
  <2>q. QED
    BY <2>3, <2>4
<1>q. QED
  BY <1>5, <1>6, <1>7 DEF CronInv
-----------------------------------------------------------------------------
(* Requests that begin.                                                    *)

LEMMA BeginStep ==
    ASSUME CronTypeOK, CronInv, NEW u \in Requesters, NEW i \in Ids, NEW r \in Row,
           NEW set \in Edit, NEW todo \in Seq(Operations), Begin(u, i, r, set, todo),
           row' \in [Ids -> Row], \A j \in Ids \ {i} : row'[j] = row[j],
           row'[i].state = "there", row[i].state = "none" \/ row' = row,
           todo # <<>> => todo \in Todos(row'[i]),
           ASSUME Alone(i), i \notin overlap, For(i) = {}
           PROVE  /\ todo # <<>> => Duty(u)'
                  /\ todo = <<>> => Done(i)'
    PROVE  CronTypeOK' /\ CronInv'
<1> DEFINE x == [id |-> i, todo |-> <<>>, expr |-> New(set.expr, r.expr),
                 cmd |-> New(set.cmd, r.cmd), set |-> set]
<1>1. /\ request[u].todo = <<>> /\ made < MaxRequests /\ made' = made + 1
      /\ request' = [request EXCEPT ![u] = Left(x, todo)]
      /\ overlap' = IF Requested(i) THEN overlap \cup {i} ELSE overlap
      /\ UNCHANGED <<servers, queue, tab, reading, out, crowded, failed>>
  BY DEF Begin, Active
<1>2. /\ Left(x, todo) \in Request
      /\ todo = <<>> => Left(x, todo).todo = <<>>
      /\ todo # <<>> => Left(x, todo).todo = todo /\ Left(x, todo).id = i
  <2>1. NoRequest \in Request /\ NoRequest.todo = <<>>
    BY CronAssumption DEF NoRequest, Request, SomeExpr, SomeCmd, Nothing, Edit
  <2>2. New(set.expr, r.expr) \in Exprs /\ New(set.cmd, r.cmd) \in Cmds
    BY DEF Row, Edit, New
  <2>3. [x EXCEPT !.todo = todo] \in Request
    BY <2>2 DEF Request
  <2>q. QED
    BY <2>1, <2>3 DEF Left
<1>3. /\ request' \in [Requesters -> Request]
      /\ \A v \in Requesters \ {u} : request'[v] = request[v]
      /\ request'[u] = Left(x, todo)
  BY <1>1, <1>2 DEF CronTypeOK
<1> HIDE DEF x
<1>4. CronTypeOK'
  <2>1. made' \in 0 .. MaxRequests
    BY <1>1, CronAssumption DEF CronTypeOK
  <2>2. overlap' \subseteq Ids
    BY <1>1 DEF CronTypeOK
  <2>3. (\A v \in Requesters : request[v].todo # <<>> =>
            request[v].id \in Ids /\ row[request[v].id].state # "none")'
    BY <1>1, <1>2, <1>3 DEF CronTypeOK
  <2>q. QED
    BY <1>1, <1>3, <2>1, <2>2, <2>3 DEF CronTypeOK
<1>5. Reads'
  <2>1. ASSUME NEW v \in reading
        PROVE  /\ v \in Requesters /\ request'[v] = request[v] /\ request[v].todo # <<>>
               /\ row'[request[v].id].at = row[request[v].id].at
    <3>1. v \in Requesters /\ request[v].todo # <<>>
      BY <2>1 DEF CronInv, Reads, CronTypeOK, Active
    <3>2. v # u /\ request[v].id \in Ids /\ row[request[v].id].state # "none"
      BY <1>1, <3>1 DEF CronTypeOK
    <3>3. row'[request[v].id] = row[request[v].id]
      BY <3>2
    <3>q. QED
      BY <1>3, <3>1, <3>2, <3>3
  <2>2. tab' = tab /\ reading' = reading /\ out' = out /\ crowded \subseteq crowded'
    BY <1>1
  <2>q. QED
    BY <2>1, <2>2, StillRead DEF CronInv
<1>6. \A j \in Ids : \A v \in Requesters \ {u} : v \in For(j)' <=> v \in For(j)
  BY <1>3 DEF For, Active
<1>7. \A j \in Ids : u \notin For(j) /\ (u \in For(j)' <=> j = i /\ todo # <<>>)
  BY <1>1, <1>2, <1>3 DEF For, Active
<1>8. \A j \in Ids : For(j) \subseteq Requesters /\ For(j)' \subseteq Requesters
  BY DEF For
<1>9. ASSUME NEW j \in Ids \ {i}
      PROVE  Job(j)'
  <2>1. ASSUME NEW v \in For(j) \cup For(j)'
        PROVE  request'[v] = request[v] /\ (Reaches(v)' => Reaches(v))
    <3>1. v \in Requesters /\ v # u /\ v \in For(j)
      BY <1>6, <1>7, <1>8, <2>1
    <3>2. request'[v] = request[v] /\ request[v].id = j
      BY <1>3, <3>1 DEF For
    <3>q. QED
      BY <1>1, <3>2 DEF Reaches, At
  <2>2. Job(j) /\ \A s \in Servers \ crowded' : tab'[s][j] = tab[s][j]
    BY <1>1 DEF CronInv
  <2>3. row'[j] = row[j] /\ servers' \subseteq servers /\ queue \subseteq queue' /\ overlap \subseteq overlap'
        /\ crowded \subseteq crowded' /\ failed \subseteq failed'
    BY <1>1
  <2>q. QED
    BY <2>1, <2>2, <2>3, Untouched
<1>10. Job(i)'
  <2>1. Job(i)
    BY DEF CronInv
  <2>2. (row[i].state = "none" => row[i].at = Local)'
    OBVIOUS
  <2>3. (\A s \in Servers \ crowded : s # row[i].at => tab[s][i] = None)'
    <3>1. CASE row[i].state = "none"
      BY <1>1, <2>1, <3>1, CronAssumption DEF Job
    <3>2. CASE row' = row
      BY <1>1, <2>1, <3>2 DEF Job
    <3>q. QED
      BY <3>1, <3>2
  <2>4. (\A v \in For(i) : request[v].todo \in Todos(row[i]))'
    <3>1. ASSUME NEW v \in For(i)'
          PROVE  request'[v].todo \in Todos(row'[i])
      <4>1. CASE v = u
        BY <1>2, <1>3, <1>7, <3>1, <4>1
      <4>2. CASE v # u
        <5>1. v \in Requesters /\ v \in For(i) /\ request'[v] = request[v]
          BY <1>3, <1>6, <1>8, <3>1, <4>2
        <5>2. row' = row
          BY <5>1 DEF For, Active, CronTypeOK
        <5>q. QED
          BY <2>1, <5>1, <5>2 DEF Job
      <4>q. QED
        BY <4>1, <4>2
    <3>2. Todos(row[i])' = Todos(row'[i])
      BY DEF Todos
    <3>q. QED
      BY <3>1, <3>2
  <2>5. ASSUME i \notin overlap'
        PROVE  Alone(i)'
    <3>1. i \notin overlap /\ ~Requested(i)
      BY <1>1, <2>5
    <3>2. For(i) = {} /\ Alone(i)
      BY <2>1, <3>1 DEF For, Requested, Job
    <3>3. For(i)' \subseteq {u} /\ (For(i)' = {} => todo = <<>>)
      BY <1>6, <1>7, <1>8, <3>2
    <3>4. (todo # <<>> => Duty(u)') /\ (todo = <<>> => Done(i)')
      BY <3>1, <3>2
    <3>5. (\A s \in Servers \ crowded : tab[s][i] # Many)'
      BY <1>1, <3>2 DEF Alone
    <3>6. (\A v, w \in For(i) : v = w)'
      BY <3>3
    <3>7. \A v \in For(i)' : Duty(v)'
      BY <1>7, <3>3, <3>4
    <3>8. (row[i].state # "none" /\ For(i) = {} => Done(i))'
      BY <3>3, <3>4
    <3>q. QED
      BY <3>5, <3>6, <3>7, <3>8 DEF Alone
  <2>q. QED
    BY <2>2, <2>3, <2>4, <2>5 DEF Job
<1>q. QED
  BY <1>4, <1>5, <1>9, <1>10 DEF CronInv

\* What the request is then.
LEMMA Begun ==
    ASSUME CronTypeOK, NEW u \in Requesters, NEW i \in Ids, NEW r, NEW set,
           NEW todo, todo # <<>>, Begin(u, i, r, set, todo)
    PROVE  /\ request'[u].id = i /\ request'[u].todo = todo /\ request'[u].set = set
           /\ request'[u].expr = New(set.expr, r.expr) /\ request'[u].cmd = New(set.cmd, r.cmd)
           /\ UNCHANGED <<servers, queue, tab, reading, out, crowded, failed>>
           /\ At(u)' = row'[i].at /\ WillBe(u)' = New(set.enabled, row'[i].enabled)
<1> DEFINE x == [id |-> i, todo |-> <<>>, expr |-> New(set.expr, r.expr),
                 cmd |-> New(set.cmd, r.cmd), set |-> set]
<1>1. request'[u] = [x EXCEPT !.todo = todo]
  BY DEF Begin, Left, CronTypeOK
<1>2. request'[u].id = i /\ request'[u].todo = todo /\ request'[u].set = set
      /\ request'[u].expr = New(set.expr, r.expr) /\ request'[u].cmd = New(set.cmd, r.cmd)
  BY <1>1
<1>q. QED
  BY <1>2 DEF Begin, At, WillBe

LEMMA NothingIs == Nothing \in Edit /\ \A old : New(Nothing.expr, old) = old /\ New(Nothing.cmd, old) = old
                                              /\ New(Nothing.enabled, old) = old
  BY DEF Nothing, Edit, New

LEMMA CreateStep ==
    ASSUME CronTypeOK, CronInv, NEW u \in Requesters, NEW i \in Ids, NEW r \in Creates,
           Create(u, i, r)
    PROVE  CronTypeOK' /\ CronInv'
<1> DEFINE todo == IF r.at # Local THEN <<"append">> ELSE IF r.enabled = "on" THEN <<"add">> ELSE <<>>
<1>1. /\ r \in Row /\ r.state = "there"
      /\ row[i].state = "none" /\ row' = [row EXCEPT ![i] = r]
      /\ Begin(u, i, r, Nothing, todo)
  BY CronAssumption DEF Create
<1>2. row' \in [Ids -> Row] /\ row'[i] = r /\ \A j \in Ids \ {i} : row'[j] = row[j]
  BY <1>1 DEF CronTypeOK
<1>3. \/ r.at # Local /\ todo = <<"append">>
      \/ r.at = Local /\ todo = <<"add">>
      \/ r.at = Local /\ r.enabled # "on" /\ todo = <<>>
  OBVIOUS
<1> HIDE DEF todo
<1>4. todo \in Seq(Operations) /\ (todo # <<>> => todo \in Todos(row'[i]))
  <2>1. CASE todo = <<"append">>
    BY <1>2, <1>3, <2>1, FarTail DEF Todos, FarTodos
  <2>2. CASE todo = <<"add">>
    BY <1>2, <1>3, <2>2, NearTail DEF Todos, NearTodos
  <2>3. CASE todo = <<>>
    BY <2>3
  <2>q. QED
    BY <1>3, <2>1, <2>2, <2>3
<1>5. UNCHANGED <<servers, queue, tab, crowded, failed>>
  BY <1>1 DEF Begin
<1>6. ASSUME Alone(i), i \notin overlap, For(i) = {}
      PROVE  /\ todo # <<>> => Duty(u)'
             /\ todo = <<>> => Done(i)'
  <2>1. ASSUME todo # <<>>
        PROVE  Duty(u)'
    <3>1. /\ request'[u].id = i /\ request'[u].todo = todo /\ request'[u].set = Nothing
          /\ request'[u].expr = r.expr /\ request'[u].cmd = r.cmd
          /\ At(u)' = r.at
      BY <1>1, <1>2, <2>1, Begun, NothingIs
    <3>2. todo \notin Leaves /\ todo # <<"clear">> /\ todo # <<"delete">> /\ todo # <<"save">>
      <4>1. CASE todo = <<"append">>
        BY <4>1 DEF Leaves
      <4>2. CASE todo = <<"add">>
        BY <4>2 DEF Leaves
      <4>q. QED
        BY <1>3, <2>1, <4>1, <4>2
    <3>3. Wish(u)'
      BY <1>2, <3>1, <3>2, NothingIs DEF Wish
    <3>4. At(u)' \in Servers \ crowded' => Far(u)'
      <4>1. \A s \in Servers \ crowded : tab[s][i] = None
        BY <1>1, CronAssumption DEF CronInv, Job
      <4>q. QED
        BY <1>5, <3>1, <3>2, <4>1 DEF Far
    <3>5. Near(u)'
      BY <3>1, <3>2 DEF Near
    <3>q. QED
      BY <1>1, <1>2, <3>1, <3>3, <3>4, <3>5 DEF Duty
  <2>2. ASSUME todo = <<>>
        PROVE  Done(i)'
    <3>1. row'[i].at \notin servers' /\ row'[i].enabled # "on"
      BY <1>2, <1>3, <1>5, <2>2, CronAssumption DEF CronTypeOK
    <3>q. QED
      BY <3>1 DEF Done
  <2>q. QED
    BY <2>1, <2>2
<1>q. QED
  BY <1>1, <1>2, <1>4, <1>6, NothingIs, BeginStep

LEMMA UpdateStep ==
    ASSUME CronTypeOK, CronInv, NEW u \in Requesters, NEW i \in Ids, NEW set \in Edits,
           Update(u, i, set)
    PROVE  CronTypeOK' /\ CronInv'
<1> DEFINE r == row[i]
           todo == Plan(r, set)
<1>1. /\ r.state = "there" /\ row' = row /\ Begin(u, i, r, set, todo)
  BY DEF Update
<1>2. r \in Row /\ set \in Edit
  BY CronAssumption DEF CronTypeOK
<1>3. r.at # Local =>
          /\ todo \in FarTodos /\ Head(todo) \in {"clear", "save"} /\ todo # <<"clear">>
          /\ todo \in Leaves => New(set.enabled, r.enabled) = "off"
          /\ todo = <<"save">> => New(set.expr, r.expr) = r.expr /\ New(set.cmd, r.cmd) = r.cmd
                                 /\ New(set.enabled, r.enabled) = r.enabled
  BY <1>2, FarPlan
<1>4. r.at = Local =>
          /\ todo \in {<<"add", "save">>, <<"save">>}
          /\ todo = <<"save">> /\ New(set.enabled, r.enabled) = "on" =>
                New(set.expr, r.expr) = r.expr /\ New(set.enabled, r.enabled) = r.enabled
  BY <1>2, NearPlan
<1> HIDE DEF todo
<1>5. todo \in Seq(Operations) /\ todo # <<>> /\ todo \in Todos(row'[i])
  <2>1. CASE r.at = Local
    <3>1. todo \in NearTodos
      BY <1>4, <2>1 DEF NearTodos
    <3>q. QED
      BY <1>1, <2>1, <3>1, NearTail DEF Todos
  <2>2. CASE r.at # Local
    BY <1>1, <1>3, <2>2, FarTail DEF Todos
  <2>q. QED
    BY <2>1, <2>2
<1>6. /\ request'[u].id = i /\ request'[u].todo = todo /\ request'[u].set = set
      /\ request'[u].expr = New(set.expr, r.expr) /\ request'[u].cmd = New(set.cmd, r.cmd)
      /\ UNCHANGED <<servers, queue, tab, reading, out, crowded, failed>>
      /\ At(u)' = r.at /\ WillBe(u)' = New(set.enabled, r.enabled)
  BY <1>1, <1>5, Begun
<1>7. ASSUME Alone(i), i \notin overlap, For(i) = {}
      PROVE  Duty(u)'
  <2>1. Done(i)
    BY <1>1, <1>7 DEF Alone
  <2>2. /\ todo \notin {<<"append">>, <<"add">>} /\ todo # <<"clear">> /\ todo # <<"delete">>
        /\ r.at # Local => Head(todo) # "append"
    <3>1. CASE r.at = Local
      <4>1. CASE todo = <<"add", "save">>
        BY <3>1, <4>1
      <4>2. CASE todo = <<"save">>
        BY <3>1, <4>2
      <4>q. QED
        BY <1>4, <3>1, <4>1, <4>2
    <3>2. CASE r.at # Local
      BY <1>3, <3>2
    <3>q. QED
      BY <3>1, <3>2
  <2>3. todo \in Leaves => New(set.enabled, r.enabled) = "off"
    <3>1. CASE r.at = Local
      <4>1. CASE todo = <<"add", "save">>
        BY <4>1 DEF Leaves
      <4>2. CASE todo = <<"save">>
        BY <4>2 DEF Leaves
      <4>q. QED
        BY <1>4, <3>1, <4>1, <4>2
    <3>2. CASE r.at # Local
      BY <1>3, <3>2
    <3>q. QED
      BY <3>1, <3>2
  <2>4. Wish(u)'
    BY <1>1, <1>6, <2>2, <2>3 DEF Wish
  <2>5. At(u)' \in Servers \ crowded' => Far(u)'
    <3>1. ASSUME r.at \in servers \ crowded, todo = <<"save">>, i \notin failed
          PROVE  \/ tab[r.at][i] = [expr |-> New(set.expr, r.expr), cmd |-> New(set.cmd, r.cmd)]
                 \/ tab[r.at][i] = None /\ New(set.enabled, r.enabled) = "off"
      <4>1. r.at # Local
        BY <3>1, CronAssumption DEF CronTypeOK
      <4>q. QED
        BY <1>1, <1>3, <2>1, <3>1, <4>1 DEF Done, LineOf
    <3>2. At(u)' \in Servers => r.at # Local
      BY <1>6, CronAssumption
    <3>q. QED
      BY <1>6, <2>2, <3>1, <3>2 DEF Far
  <2>6. At(u)' = Local /\ i \notin failed' => Near(u)'
    BY <1>1, <1>4, <1>6, <2>1 DEF Near, Done
  <2> HIDE DEF r
  <2>q. QED
    BY <1>1, <1>6, <2>4, <2>5, <2>6 DEF Duty, r
<1> HIDE DEF r
<1>8. r = row[i] /\ row \in [Ids -> Row]
  BY DEF r, CronTypeOK
<1>q. QED
  BY <1>1, <1>2, <1>5, <1>7, <1>8, BeginStep

LEMMA DeleteStep ==
    ASSUME CronTypeOK, CronInv, NEW u \in Requesters, NEW i \in Ids, Delete(u, i)
    PROVE  CronTypeOK' /\ CronInv'
<1> DEFINE todo == IF row[i].at # Local THEN <<"clear", "delete">> ELSE <<"delete">>
<1>1. row[i].state = "there" /\ row' = row /\ Begin(u, i, row[i], Nothing, todo)
  BY DEF Delete
<1>2. row \in [Ids -> Row] /\ row[i] \in Row
  BY DEF CronTypeOK
<1>3. \/ row[i].at # Local /\ todo = <<"clear", "delete">>
      \/ row[i].at = Local /\ todo = <<"delete">>
  OBVIOUS
<1> HIDE DEF todo
<1>4. todo \in Seq(Operations) /\ todo # <<>> /\ todo \in Todos(row'[i])
  <2>1. CASE row[i].at # Local
    BY <1>1, <1>3, <2>1, FarTail DEF Todos, FarTodos
  <2>2. CASE row[i].at = Local
    BY <1>1, <1>3, <2>2, NearTail DEF Todos, NearTodos
  <2>q. QED
    BY <2>1, <2>2
<1>5. /\ request'[u].id = i /\ request'[u].todo = todo /\ request'[u].set = Nothing
      /\ request'[u].expr = row[i].expr /\ request'[u].cmd = row[i].cmd
      /\ At(u)' = row[i].at
  BY <1>1, <1>4, Begun, NothingIs
<1>6. /\ todo \notin {<<"append">>, <<"add">>} /\ todo # <<"clear">> /\ todo # <<"save">>
      /\ todo \notin Leaves /\ Head(todo) # "append"
      /\ row[i].at # Local => todo # <<"delete">>
  <2>1. CASE todo = <<"delete">>
    BY <1>3, <2>1 DEF Leaves
  <2>2. CASE todo = <<"clear", "delete">>
    BY <2>2 DEF Leaves
  <2>q. QED
    BY <1>3, <2>1, <2>2
<1>7. Duty(u)'
  <2>1. Wish(u)'
    BY <1>1, <1>5, <1>6, NothingIs DEF Wish
  <2>2. At(u)' \in Servers => Far(u)'
    BY <1>5, <1>6, CronAssumption DEF Far
  <2>3. Near(u)'
    BY <1>5, <1>6 DEF Near
  <2>q. QED
    BY <1>1, <1>5, <2>1, <2>2, <2>3 DEF Duty
<1>q. QED
  BY <1>1, <1>2, <1>4, <1>7, NothingIs, BeginStep

\* A server is removed.
LEMMA DeleteServerStep ==
    ASSUME CronTypeOK, CronInv, NEW s \in Servers, DeleteServer(s)
    PROVE  CronTypeOK' /\ CronInv'
<1>1. /\ servers' \subseteq servers
      /\ UNCHANGED <<row, queue, tab, request, made, reading, out, overlap, crowded, failed>>
  BY DEF DeleteServer, history
<1>2. CronTypeOK'
  BY <1>1 DEF CronTypeOK
<1>3. Reads'
  <2>1. \A u \in reading : request[u].todo # <<>>
    BY DEF CronInv, Reads, Active
  <2>q. QED
    BY <1>1, <2>1, StillRead DEF CronInv
<1>4. ASSUME NEW j \in Ids
      PROVE  Job(j)'
  <2>1. \A u \in For(j) \cup For(j)' : request'[u] = request[u] /\ (Reaches(u)' => Reaches(u))
    BY <1>1 DEF Reaches, At
  <2>2. Job(j) /\ row'[j] = row[j]
    BY <1>1 DEF CronInv
  <2>q. QED
    BY <1>1, <2>1, <2>2, Untouched
<1>q. QED
  BY <1>2, <1>3, <1>4 DEF CronInv

-----------------------------------------------------------------------------
(* All steps.                                                              *)

LEMMA CronJobsInit == CronInit => CronTypeOK /\ CronInv
<1> SUFFICES ASSUME CronInit
             PROVE  CronTypeOK /\ CronInv
  OBVIOUS
<1> USE DEF CronInit
<1>1. NoRow \in Row /\ NoRow.at = Local /\ NoRow.state = "none"
  BY CronAssumption DEF NoRow, Row, SomeExpr, SomeCmd, Switch
<1>2. NoRequest \in Request /\ NoRequest.todo = <<>>
  BY CronAssumption DEF NoRequest, Request, SomeExpr, SomeCmd, Nothing, Edit
<1>3. Empty \in Crontab /\ \A i \in Ids : Empty[i] = None
  BY DEF Empty, Crontab
<1>4. CronTypeOK
  BY <1>1, <1>2, <1>3, CronAssumption DEF CronTypeOK
<1>5. Reads
  BY DEF Reads
<1>6. ASSUME NEW i \in Ids
      PROVE  Job(i)
  <2>1. For(i) = {} /\ row[i] = NoRow
    BY <1>2 DEF For, Active
  <2>q. QED
    BY <1>1, <1>3, <2>1, CronAssumption DEF Job, Alone
<1>q. QED
  BY <1>4, <1>5, <1>6 DEF CronInv

LEMMA CronJobsStep ==
    ASSUME CronTypeOK, CronInv, [CronNext]_cronVars
    PROVE  CronTypeOK' /\ CronInv'
<1>1. ASSUME NEW u \in Requesters, Active(u)
      PROVE  request[u].id \in Ids
  BY <1>1 DEF CronTypeOK, Active
<1>2. ASSUME NEW u \in Requesters, AddJob(u) \/ ReadTab(u) \/ SkipClear(u) \/ Save(u) \/ DeleteRow(u)
      PROVE  CronTypeOK' /\ CronInv'
  <2>1. request[u].id \in Ids
    BY <1>1, <1>2 DEF AddJob, ReadTab, SkipClear, Save, DeleteRow, Turn
  <2>q. QED
    BY <1>2, <2>1, AddJobStep, ReadTabStep, SkipClearStep, SaveStep, DeleteRowStep
<1>3. ASSUME NEW u \in Requesters, WriteTab(u)
      PROVE  CronTypeOK' /\ CronInv'
  <2>1. request[u].id \in Ids
    BY <1>1, <1>3 DEF WriteTab, CronInv, Reads
  <2>q. QED
    BY <1>3, <2>1, WriteTabStep
<1>4. ASSUME NEW u \in Requesters, Throw(u)
      PROVE  CronTypeOK' /\ CronInv'
  <2>1. PICK orphans \in SUBSET ({u} \cap Commands) : Abandon({u}, orphans)
    BY <1>4 DEF Throw
  <2>2. Active(u)
    BY <1>4 DEF Throw
  <2>q. QED
    BY <2>1, <2>2, AbandonStep
<1>5. ASSUME CronCrash
      PROVE  CronTypeOK' /\ CronInv'
  <2>1. PICK us \in SUBSET Requesters, orphans \in SUBSET Requesters :
            /\ us = {u \in Requesters : Active(u)} /\ orphans \subseteq Commands
            /\ Abandon(us, orphans)
    BY <1>5 DEF CronCrash, Commands
  <2>2. orphans \subseteq us \cap Commands
    BY <2>1 DEF Commands
  <2>q. QED
    BY <2>1, <2>2, AbandonStep
<1>6. ASSUME UNCHANGED cronVars
      PROVE  CronTypeOK' /\ CronInv'
  <2>1. UNCHANGED <<row, servers, queue, tab, request, made, reading, out, overlap, crowded, failed>>
    BY <1>6 DEF cronVars, history
  <2>2. CronTypeOK'
    BY <2>1 DEF CronTypeOK
  <2>3. Reads'
    <3>1. \A u \in reading : request[u].todo # <<>>
      BY DEF CronInv, Reads, Active
    <3>q. QED
      BY <2>1, <3>1, StillRead DEF CronInv
  <2>4. ASSUME NEW j \in Ids
        PROVE  Job(j)'
    <3>1. \A u \in For(j) \cup For(j)' : request'[u] = request[u] /\ (Reaches(u)' => Reaches(u))
      BY <2>1 DEF Reaches, At
    <3>2. Job(j)
      BY DEF CronInv
    <3>q. QED
      BY <2>1, <3>1, <3>2, Untouched
  <2>q. QED
    BY <2>2, <2>3, <2>4 DEF CronInv
<1>q. QED
  BY <1>2, <1>3, <1>4, <1>5, <1>6, CreateStep, UpdateStep, DeleteStep, DeleteServerStep DEF CronNext

-----------------------------------------------------------------------------
(* Theorems.                                                               *)

\* One job at a time, and one command: the queue, a crontab and the row are what
\* the requests that came one after the other, in all their steps, have left.
THEOREM CronJobsInvariant == CronSpec => [](CronTypeOK /\ CronInv)
<1>1. CronTypeOK /\ CronInv /\ [CronNext]_cronVars => (CronTypeOK /\ CronInv)'
  BY CronJobsStep
<1>q. QED
  BY CronJobsInit, <1>1, PTL DEF CronSpec

\* The types of the cron jobs, and that a request only begins for a job that is
\* there.
THEOREM CronJobsTypeCorrect == CronSpec => []CronTypeOK
<1>1. CronTypeOK /\ CronInv => CronTypeOK
  OBVIOUS
<1>q. QED
  BY CronJobsInvariant, <1>1, PTL

\* A quiet job is what its requests have left.
LEMMA QuietDone ==
    ASSUME CronInv, NEW i \in Ids, Quiet(i)
    PROVE  Done(i)
<1>1. i \notin overlap /\ For(i) = {} /\ row[i].state # "none"
  BY DEF Quiet, Requested, For
<1>q. QED
  BY <1>1 DEF CronInv, Job, Alone

\* An enabled local job whose requests succeeded one after the other fires at the
\* times its row says.
THEOREM CronJobsLocal == CronSpec => []LocalSynced
<1>1. CronTypeOK /\ CronInv => LocalSynced
  BY QuietDone DEF LocalSynced, Done
<1>q. QED
  BY CronJobsInvariant, <1>1, PTL

\* The crontab of a managed server on which no two commands met has the line of
\* such a job, or none when it is disabled, and none of a deleted one.
THEOREM CronJobsRemote == CronSpec => []RemoteSynced
<1>1. CronTypeOK /\ CronInv => RemoteSynced
  BY QuietDone DEF RemoteSynced, Done
<1>q. QED
  BY CronJobsInvariant, <1>1, PTL

\* A job is twice in a crontab only after requests for it that overlapped or
\* commands that met.
THEOREM CronJobsTwice == CronSpec => []TwiceNeedsOverlap
<1>1. CronTypeOK /\ CronInv => TwiceNeedsOverlap
  BY DEF TwiceNeedsOverlap, CronInv, Job, Alone
<1>q. QED
  BY CronJobsInvariant, <1>1, PTL

=============================================================================
