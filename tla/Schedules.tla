----------------------------- MODULE Schedules -----------------------------
(***************************************************************************)
(* Cron schedules: SchedulerService (restart, reload or stop an app) and   *)
(* BackupStrategyService (run a backup strategy).  The wish is a row of    *)
(* PostgreSQL, what fires is a repeatable job of BullMQ in Redis, and each *)
(* request updates the one and then the other with no transaction.  One    *)
(* action is the code between two awaits of a request.                     *)
(*                                                                         *)
(* The queue is external: a repeatable job is known by schedule and cron   *)
(* pattern, adding it twice leaves one, and a pattern that cannot be       *)
(* parsed makes add throw.  No DTO check stops such a pattern (the DTOs    *)
(* are interfaces).  getRepeatableJobs of bullmq 5.79.2 lists no id equal  *)
(* to the jobId given to add, so removeJob and unregister find nothing and *)
(* change nothing: they are no step here.  Labels, actions and lastRanAt   *)
(* are left out.                                                           *)
(***************************************************************************)
EXTENDS Naturals, FiniteSets

CONSTANTS
    AppSchedules, \* AppSchedule ids
    Strategies,   \* BackupStrategy ids
    NoSchedule,
    Crons,        \* cron patterns
    BadCrons,     \* the ones that cannot be parsed
    NoCron,
    Callers       \* concurrent requests

Schedules == AppSchedules \cup Strategies

ASSUME ScheduleAssumption ==
    /\ AppSchedules \cap Strategies = {}
    /\ NoSchedule \notin Schedules
    /\ BadCrons \subseteq Crons
    /\ NoCron \notin Crons

VARIABLES
    state,   \* the row of a schedule: absent, disabled or enabled
    cron,    \* its cron pattern
    used,    \* ids ever created; cuid() gives none twice
    repeat,  \* repeatable jobs: pairs of schedule and pattern
    call,    \* the requests in progress
    up       \* the API process serves requests

vars == <<state, cron, used, repeat, call, up>>

RowState == {"absent", "disabled", "enabled"}
Pcs == {"idle", "write", "register"}

\* set, to: the update asked for ("keep", NoCron: the column is not in the
\* DTO); at pc "register", to is the pattern of the row just written.
Call == [pc: Pcs, id: Schedules \cup {NoSchedule}, op: {"create", "update", "delete"},
         set: {"keep", "disabled", "enabled"}, to: Crons \cup {NoCron}]
IdleCall == [pc |-> "idle", id |-> NoSchedule, op |-> "create", set |-> "keep",
             to |-> NoCron]
Registering(s, k) == [IdleCall EXCEPT !.pc = "register", !.id = s, !.to = k]
Updating(s, e, k) == [IdleCall EXCEPT !.pc = "write", !.id = s, !.op = "update",
                                      !.set = e, !.to = k]
Deleting(s) == [IdleCall EXCEPT !.pc = "write", !.id = s, !.op = "delete"]

TypeOK ==
    /\ state \in [Schedules -> RowState]
    /\ cron \in [Schedules -> Crons \cup {NoCron}]
    /\ \A s \in Schedules : state[s] # "absent" => cron[s] # NoCron
    /\ used \subseteq Schedules
    /\ repeat \subseteq Schedules \X Crons
    /\ call \in [Callers -> Call]
    /\ \A c \in Callers :
          /\ call[c].pc # "idle" => call[c].id \in Schedules
          /\ call[c].pc = "register" => call[c].to # NoCron
    /\ up \in BOOLEAN

Init ==
    /\ state = [s \in Schedules |-> "absent"]
    /\ cron = [s \in Schedules |-> NoCron]
    /\ used = {}
    /\ repeat = {}
    /\ call = [c \in Callers |-> IdleCall]
    /\ up = TRUE

-----------------------------------------------------------------------------
(* Requests.                                                               *)

Busy(s) == \E c \in Callers : call[c].pc # "idle" /\ call[c].id = s

\* createSchedule, createStrategy: the row, then its job if it is enabled.
CreateRow(c, s) ==
    /\ up
    /\ call[c].pc = "idle"
    /\ s \notin used
    /\ used' = used \cup {s}
    /\ \E e \in {"disabled", "enabled"}, k \in Crons :
          /\ state' = [state EXCEPT ![s] = e]
          /\ cron' = [cron EXCEPT ![s] = k]
          /\ call' = [call EXCEPT ![c] =
                         IF e = "enabled" THEN Registering(s, k) ELSE IdleCall]
    /\ UNCHANGED <<repeat, up>>

\* updateSchedule looks at the row first, updateStrategy does not.
RequestUpdate(c, s) ==
    /\ up
    /\ call[c].pc = "idle"
    /\ s \in used
    /\ s \in AppSchedules => state[s] # "absent"
    /\ \E e \in {"keep", "disabled", "enabled"}, k \in Crons \cup {NoCron} :
          call' = [call EXCEPT ![c] = Updating(s, e, k)]
    /\ UNCHANGED <<state, cron, used, repeat, up>>

RequestDelete(c, s) ==
    /\ up
    /\ call[c].pc = "idle"
    /\ s \in used
    /\ call' = [call EXCEPT ![c] = Deleting(s)]
    /\ UNCHANGED <<state, cron, used, repeat, up>>

\* Mutant: the job is only added again when the DTO has a pattern.
WriteUpdateIfChanged(c) ==
    /\ call[c].pc = "write"
    /\ call[c].op = "update"
    /\ LET s == call[c].id
           e == IF call[c].set = "keep" THEN state[s] ELSE call[c].set
       IN /\ state[s] # "absent"
          /\ state' = [state EXCEPT ![s] = e]
          /\ cron' = [cron EXCEPT ![s] = IF call[c].to = NoCron THEN @ ELSE call[c].to]
          /\ call' = [call EXCEPT ![c] =
                 IF e = "enabled" /\ call[c].to # NoCron
                   THEN Registering(s, call[c].to)
                   ELSE IdleCall]
    /\ UNCHANGED <<used, repeat, up>>

\* The row is updated by id: without it the update throws.
WriteUpdate(c) ==
    /\ call[c].pc = "write"
    /\ call[c].op = "update"
    /\ LET s == call[c].id
           e == IF call[c].set = "keep" THEN state[s] ELSE call[c].set
           k == IF call[c].to = NoCron THEN cron[s] ELSE call[c].to
       IN \/ /\ state[s] = "absent"
             /\ call' = [call EXCEPT ![c] = IdleCall]
             /\ UNCHANGED <<state, cron>>
          \/ /\ state[s] # "absent"
             /\ state' = [state EXCEPT ![s] = e]
             /\ cron' = [cron EXCEPT ![s] = k]
             /\ call' = [call EXCEPT ![c] =
                    IF e = "enabled" THEN Registering(s, k) ELSE IdleCall]
    /\ UNCHANGED <<used, repeat, up>>

\* Deleting a row that is gone throws and changes nothing either.
WriteDelete(c) ==
    /\ call[c].pc = "write"
    /\ call[c].op = "delete"
    /\ state' = [state EXCEPT ![call[c].id] = "absent"]
    /\ cron' = [cron EXCEPT ![call[c].id] = NoCron]
    /\ call' = [call EXCEPT ![c] = IdleCall]
    /\ UNCHANGED <<used, repeat, up>>

\* registerJob, register.
Register(c) ==
    /\ call[c].pc = "register"
    /\ repeat' = IF call[c].to \in BadCrons THEN repeat
                 ELSE repeat \cup {<<call[c].id, call[c].to>>}
    /\ call' = [call EXCEPT ![c] = IdleCall]
    /\ UNCHANGED <<state, cron, used, up>>

\* Deleting an AppConfig cascades to its schedules; the queue is not told.
RemoveApp(S) ==
    /\ up
    /\ S # {}
    /\ \A s \in S : state[s] # "absent"
    /\ state' = [s \in Schedules |-> IF s \in S THEN "absent" ELSE state[s]]
    /\ cron' = [s \in Schedules |-> IF s \in S THEN NoCron ELSE cron[s]]
    /\ UNCHANGED <<used, repeat, call, up>>

-----------------------------------------------------------------------------
(* Crash and restart.                                                      *)

Crash ==
    /\ up
    /\ up' = FALSE
    /\ call' = [c \in Callers |-> IdleCall]
    /\ UNCHANGED <<state, cron, used, repeat>>

Enabled == {s \in Schedules : state[s] = "enabled"}
CanBoot == \A s \in Enabled : cron[s] \notin BadCrons

\* Mutant: the process trusts the jobs it left in Redis.
RestartTrustsQueue ==
    /\ ~up
    /\ CanBoot
    /\ up' = TRUE
    /\ UNCHANGED <<state, cron, used, repeat, call>>

\* onModuleInit registers every enabled row before requests are served.
Restart ==
    /\ ~up
    /\ CanBoot
    /\ repeat' = repeat \cup {<<s, cron[s]>> : s \in Enabled}
    /\ up' = TRUE
    /\ UNCHANGED <<state, cron, used, call>>

\* add throws for one row: the rows before it are registered, onModuleInit
\* rejects and the process ends.
BootFails ==
    /\ ~up
    /\ ~CanBoot
    /\ \E S \in SUBSET {s \in Enabled : cron[s] \notin BadCrons} :
          repeat' = repeat \cup {<<s, cron[s]>> : s \in S}
    /\ UNCHANGED <<state, cron, used, call, up>>

-----------------------------------------------------------------------------
CallStep(c) ==
    \/ WriteUpdate(c)
    \/ WriteDelete(c)
    \/ Register(c)

Next ==
    \/ \E c \in Callers, s \in Schedules : CreateRow(c, s)
    \/ \E c \in Callers, s \in Schedules : RequestUpdate(c, s)
    \/ \E c \in Callers, s \in Schedules : RequestDelete(c, s)
    \/ \E S \in SUBSET AppSchedules : RemoveApp(S)
    \/ \E c \in Callers : CallStep(c)
    \/ Crash
    \/ Restart
    \/ BootFails

\* Redis and PostgreSQL answer, and PM2 restarts the process.
Fairness ==
    /\ \A c \in Callers : WF_vars(CallStep(c))
    /\ WF_vars(Restart)

Spec == Init /\ [][Next]_vars /\ Fairness

-----------------------------------------------------------------------------
(* Properties.                                                             *)

\* An enabled schedule fires: however requests on it interleave, and wherever a
\* crash cuts them, once none is between its write and its registration the
\* queue has a job with the pattern of the row.
EnabledIsScheduled ==
    up => \A s \in Schedules :
        state[s] = "enabled" /\ cron[s] \notin BadCrons /\ ~Busy(s)
            => <<s, cron[s]>> \in repeat

\* "This will permanently delete the automation schedule." (backups/page.tsx):
\* false, its job goes on firing.
DeletedIsUnscheduled ==
    \A s \in used : state[s] = "absent" /\ ~Busy(s) => \A k \in Crons : <<s, k>> \notin repeat

\* An enabled schedule is scheduled in the end, unless it is changed or the
\* process cannot start any more.
EventuallyScheduled ==
    \A s \in Schedules, k \in Crons :
        state[s] = "enabled" /\ cron[s] = k ~>
            \/ <<s, k>> \in repeat
            \/ state[s] # "enabled" \/ cron[s] # k
            \/ ~CanBoot

-----------------------------------------------------------------------------
(* The inductive invariant behind these properties.                        *)

\* A request in progress is about an id that was created, while the process
\* runs; an id not created yet has no row.
RequestInv ==
    /\ \A c \in Callers : call[c].pc # "idle" => up /\ call[c].id \in used
    /\ \A s \in Schedules \ used : state[s] = "absent"

\* A missing job is on its way: a request has still to register the pattern the
\* row has.
OnItsWay(s) ==
    \E c \in Callers : call[c].pc = "register" /\ call[c].id = s /\ call[c].to = cron[s]

MissingInv ==
    up => \A s \in Schedules :
        state[s] = "enabled" /\ cron[s] \notin BadCrons
            => <<s, cron[s]>> \in repeat \/ OnItsWay(s)

ScheduleInv == RequestInv /\ MissingInv

=============================================================================
