----------------------------- MODULE Playground -----------------------------
(***************************************************************************)
(* The hosted playground: throwaway workspaces made by createSession, the  *)
(* in-memory registry with its limits, the reaper's ticks and the sweep a  *)
(* process starts with.  A session is the set of tables that hold rows of  *)
(* its workspace; foreign keys decide which inserts and deletes succeed.   *)
(* Times are ages in clock ticks, capped where nothing depends on more.    *)
(***************************************************************************)
EXTENDS Naturals, Sequences, FiniteSets, Functions

CONSTANTS
    Sessions,              \* createSession calls, each with fresh ids
    IpOf,                  \* the client's address
    sessionsPerIpPerHour, executionsPerIpPerHour, executionsPerSession,
    maxConcurrentSessions,
    Ttl,                   \* ttlMinutes, and the life of a token
    Hour,                  \* HOUR_MS
    MaxFaults,             \* bound on restarts and deletes that throw, together
    None

IPs == Range(IpOf)

ASSUME PlaygroundAssumption ==
    /\ DOMAIN IpOf = Sessions
    /\ {sessionsPerIpPerHour, executionsPerIpPerHour, executionsPerSession,
        maxConcurrentSessions, Ttl, Hour} \subseteq Nat \ {0}
    /\ MaxFaults \in Nat
    /\ None \notin Sessions \cup Nat
    /\ None \notin [idle : Nat, executions : Nat]
    /\ None \notin [age : Nat, sessions : Nat, executions : Nat]

VARIABLES
    rows,       \* session -> tables with rows of its workspace
    creation,   \* session -> [state, inserted]: how far createSession has got
    registry,   \* session -> None or [idle, executions]
    windows,    \* IP -> None or [age, sessions, executions]
    token,      \* session -> age of its token
    request,    \* session -> what its visitor has under way, one thing at a time:
                \* an execution "counted" or "running", an approval being "read" or
                \* "decided", an employee being "created" or "configured", or "none"
    reaper,     \* "tick", "sweep" -> [phase, todo, at, step, user, role]
    restarts, faults,
    recent,     \* IP -> executions of this process by age: what a rolling hour holds
    ran,        \* executions a session started while it was registered
    overlap,    \* two creations were under way at once
    met,        \* sessions whose creation the sweep met
    cut,        \* sessions whose creation or recycling was cut off
    late,       \* sessions a request wrote to while or after they were recycled
    cleared     \* sessions the sweep's clear() forgot, which it had not recycled

playgroundVars == <<rows, creation, registry, windows, token, request, reaper, restarts, faults,
                    recent, ran, overlap, met, cut, late, cleared>>
ghosts == <<recent, ran, overlap, met, cut, late, cleared>>

----------------------------------------------------------------------------
(* Tables *)

\* createSession's inserts; neighbours that nothing else can tell apart are one step.
InsertOrder ==
    <<{"workspace"}, {"role"}, {"user"}, {"member"}, {"object", "permission"}, {"agent"}>>

Seed == UNION Range(InsertOrder)

\* Mutant of DeleteOrder: the role goes before the user that refers to it.
DeleteOrderRoleFirst ==
    <<{"approval", "execution", "log"}, {"agent"}, {"member"}, {"permission", "role"},
      {"user"}, {"object"}, {"workspace"}>>

\* Mutant of DeleteOrder: nobody deletes the role.
DeleteOrderKeepsRole ==
    <<{"approval", "execution", "log"}, {"agent"}, {"member"}, {"permission"}, {"user"},
      {"object"}, {"workspace"}>>

\* recycleWorkspace's deletes, likewise: leaves first.
DeleteOrder ==
    <<{"approval", "execution", "log"}, {"agent"}, {"member"}, {"permission"},
      {"user"}, {"role"}, {"object"}, {"workspace"}>>

\* Foreign keys: those that refuse the delete of what they refer to, and those that cascade.
Refers == {<<"user", "workspace">>, <<"user", "role">>, <<"member", "workspace">>, <<"member", "user">>}
Cascades == {<<"permission", "role">>, <<"execution", "agent">>}

insertable(tables, present) ==
    \A key \in Refers \cup Cascades : key[1] \in tables => key[2] \in present

deletable(tables, present) ==
    \A key \in Refers : key[2] \in tables \cap present => key[1] \notin present

without(tables, present) ==
    present \ (tables \cup {key[1] : key \in {k \in Cascades : k[2] \in tables \cap present}})

----------------------------------------------------------------------------
(* The registry *)

\* windowFor: an hour from the first use, then a new one.
windowFor(ip) ==
    IF windows[ip] = None \/ (windows[ip] # None /\ windows[ip].age >= Hour)
    THEN [age |-> 0, sessions |-> 0, executions |-> 0]
    ELSE windows[ip]

Registered == {s \in Sessions : registry[s] # None}

assertSessionAllowed(ip) ==
    /\ windowFor(ip).sessions < sessionsPerIpPerHour
    /\ Cardinality(Registered) < maxConcurrentSessions

\* No session, no limit: a regular principal's workspace is not in the registry.
assertExecutionAllowed(s) ==
    s \in Registered =>
        /\ registry[s].executions < executionsPerSession
        /\ windowFor(IpOf[s]).executions < executionsPerIpPerHour

expiredWorkspaceIds == {s \in Registered : registry[s].idle >= Ttl}

----------------------------------------------------------------------------
(* createSession *)

Done(state) == [state |-> state, inserted |-> 0]
Creating(s) == creation[s].state = "inserting"

CreateSession(s) ==
    /\ creation[s].state = "none" /\ assertSessionAllowed(IpOf[s])
    /\ creation' = [creation EXCEPT ![s].state = "inserting"]
    /\ windows' = [windows EXCEPT ![IpOf[s]] = windowFor(IpOf[s])]
    /\ overlap' = (overlap \/ \E o \in Sessions : Creating(o))
    /\ UNCHANGED <<rows, registry, token, request, reaper, restarts, faults, recent, ran, met, cut, late, cleared>>

InsertRow(s) ==
    /\ Creating(s) /\ creation[s].inserted < Len(InsertOrder)
    /\ LET tables == InsertOrder[creation[s].inserted + 1]
       IN \/ /\ insertable(tables, rows[s])
             /\ rows' = [rows EXCEPT ![s] = @ \cup tables]
             /\ creation' = [creation EXCEPT ![s].inserted = @ + 1]
          \/ /\ ~insertable(tables, rows[s])
             /\ creation' = [creation EXCEPT ![s] = Done("failed")]
             /\ UNCHANGED rows
    /\ UNCHANGED <<registry, windows, token, request, reaper, restarts, faults, ghosts>>

\* The token is signed and the session counted, after all the inserts.
Register(s) ==
    /\ Creating(s) /\ creation[s].inserted = Len(InsertOrder)
    /\ creation' = [creation EXCEPT ![s] = Done("registered")]
    /\ token' = [token EXCEPT ![s] = 0]
    /\ registry' = [registry EXCEPT ![s] = [idle |-> 0, executions |-> 0]]
    /\ windows' = [windows EXCEPT ![IpOf[s]] = [windowFor(IpOf[s]) EXCEPT !.sessions = @ + 1]]
    /\ UNCHANGED <<rows, request, reaper, restarts, faults, ghosts>>

----------------------------------------------------------------------------
(* The visitor *)

\* authenticate: a token that has not expired, its user and its membership.
authenticate(s) == token[s] # None /\ token[s] < Ttl /\ {"user", "member"} \subseteq rows[s]

\* Mutant of countExecution: a sign of life, and no count.
countExecutionTouches(s) == registry' = [registry EXCEPT ![s].idle = 0] /\ UNCHANGED windows

countExecution(s) ==
    /\ registry' = [registry EXCEPT ![s] = [idle |-> 0, executions |-> @.executions + 1]]
    /\ windows' = [windows EXCEPT ![IpOf[s]] = [windowFor(IpOf[s]) EXCEPT !.executions = @ + 1]]

\* executeAgent up to its first await: checked and counted in one go.
ExecuteAgent(s) ==
    /\ authenticate(s) /\ request[s] = "none" /\ assertExecutionAllowed(s)
    /\ request' = [request EXCEPT ![s] = "counted"]
    /\ IF s \in Registered
       THEN /\ countExecution(s)
            /\ recent' = [recent EXCEPT ![IpOf[s]][0] = @ + 1]
            /\ ran' = [ran EXCEPT ![s] = @ + 1]
       ELSE UNCHANGED <<registry, windows, recent, ran>>
    /\ UNCHANGED <<rows, creation, token, reaper, restarts, faults, overlap, met, cut, late, cleared>>

\* decideApproval touches the session, whatever becomes of the decision.
Decide(s) ==
    /\ authenticate(s) /\ request[s] = "none"
    /\ request' = [request EXCEPT ![s] = "read"]
    /\ registry' = IF s \in Registered THEN [registry EXCEPT ![s].idle = 0] ELSE registry
    /\ UNCHANGED <<rows, creation, windows, token, reaper, restarts, faults, ghosts>>

\* It goes on if the approval and its execution are found.
FindApproval(s) ==
    /\ request[s] = "read"
    /\ request' = [request EXCEPT ![s] = IF {"approval", "execution"} \subseteq rows[s] THEN "decided" ELSE "none"]
    /\ UNCHANGED <<rows, creation, registry, windows, token, reaper, restarts, faults, ghosts>>

\* createAgent, and updateAgentConfig of an employee it has found.
ChangeAgents(s) ==
    /\ authenticate(s) /\ request[s] = "none"
    /\ \/ request' = [request EXCEPT ![s] = "created"]
       \/ "agent" \in rows[s] /\ request' = [request EXCEPT ![s] = "configured"]
    /\ UNCHANGED <<rows, creation, registry, windows, token, reaper, restarts, faults, ghosts>>

Recycling(s) == \E p \in {"tick", "sweep"} : reaper[p].at = s

\* The tables a request writes to, and what it does then.  save() inserts an
\* approval that is gone once more; approvals, agents, guardrail logs and outbox
\* events (both are "log") have no foreign key, and a refused insert ends the
\* request; an approved call runs on.
Writes(s) ==
    CASE request[s] = "counted" -> IF "agent" \in rows[s] THEN {"execution"} ELSE {}
      [] request[s] = "running" -> {"approval", "log"}
      [] request[s] = "decided" -> {"approval"}
      [] request[s] = "created" -> {"agent", "log"}
      [] request[s] = "configured" -> {"log"}
      [] OTHER -> {}

Afterwards(s) ==
    IF request[s] \in {"counted", "decided"} /\ Writes(s) # {} THEN "running" ELSE "none"

\* Nobody asks whether the workspace is still there.
Write(s) ==
    /\ request[s] \notin {"none", "read"}
    /\ rows' = [rows EXCEPT ![s] = @ \cup Writes(s)]
    /\ request' = [request EXCEPT ![s] = Afterwards(s)]
    /\ late' = IF Writes(s) # {} /\ (Recycling(s) \/ "workspace" \notin rows[s]) THEN late \cup {s} ELSE late
    /\ UNCHANGED <<creation, registry, windows, token, reaper, restarts, faults, recent, ran, overlap,
                   met, cut, cleared>>

----------------------------------------------------------------------------
(* The reaper: recycleWorkspace, from a tick or from the sweep *)

Asleep == [phase |-> "asleep", todo |-> {}, at |-> None, step |-> 0, user |-> FALSE, role |-> FALSE]
Working(todo) == [Asleep EXCEPT !.phase = "work", !.todo = todo]
SetReaper(p, r) == reaper' = [reaper EXCEPT ![p] = r]
RecyclerOnly == UNCHANGED <<creation, windows, token, request, restarts>>

\* A tick with nothing to do is left out.
Tick ==
    /\ reaper["tick"] = Asleep /\ expiredWorkspaceIds # {}
    /\ SetReaper("tick", Working(expiredWorkspaceIds))
    /\ UNCHANGED <<rows, registry, faults, ghosts>> /\ RecyclerOnly

\* The sweep of a process that has just started: every playground workspace there is.
SweepOrphans ==
    /\ reaper["sweep"].phase = "list"
    /\ SetReaper("sweep", Working({s \in Sessions : "workspace" \in rows[s]}))
    /\ UNCHANGED <<rows, registry, faults, ghosts>> /\ RecyclerOnly

\* The next workspace of the list; the sweep looks its role up first.
NextWorkspace(p) ==
    /\ reaper[p].at = None /\ reaper[p].todo # {}
    /\ \E s \in reaper[p].todo :
           /\ SetReaper(p, [phase |-> "work", todo |-> reaper[p].todo \ {s}, at |-> s, step |-> 0,
                            user |-> FALSE, role |-> p = "sweep" /\ "user" \in rows[s]])
           /\ met' = IF Creating(s) THEN met \cup {s} ELSE met
    /\ UNCHANGED <<rows, registry, faults, recent, ran, overlap, cut, late, cleared>> /\ RecyclerOnly

LookupUser(p) ==
    /\ reaper[p].at # None /\ reaper[p].step = 0
    /\ LET found == "user" \in rows[reaper[p].at]
       IN SetReaper(p, [reaper[p] EXCEPT !.step = 1, !.user = found, !.role = @ \/ found])
    /\ UNCHANGED <<rows, registry, faults, ghosts>> /\ RecyclerOnly

Proceed(p) ==
    SetReaper(p, IF p = "tick" /\ reaper[p].todo = {} THEN Asleep ELSE Working(reaper[p].todo))

\* The list goes on after a tick's failure; a sweep's failure ends the sweep.
Abandon(p) == IF p = "tick" THEN Proceed(p) ELSE SetReaper(p, Asleep)

\* Permissions and role go if the role is known, the user if it was found.
Deletes(r) ==
    DeleteOrder[r.step] \ ((IF r.role THEN {} ELSE {"permission", "role"}) \cup (IF r.user THEN {} ELSE {"user"}))

DeleteRows(p) ==
    /\ reaper[p].at # None /\ reaper[p].step \in 1..Len(DeleteOrder)
    /\ LET s == reaper[p].at
           tables == Deletes(reaper[p])
       IN \/ /\ deletable(tables, rows[s])
             /\ rows' = [rows EXCEPT ![s] = without(tables, @)]
             /\ SetReaper(p, [reaper[p] EXCEPT !.step = @ + 1])
             /\ UNCHANGED cut
          \/ /\ ~deletable(tables, rows[s])
             /\ Abandon(p)
             /\ cut' = cut \cup {s}
             /\ UNCHANGED rows
    /\ UNCHANGED <<registry, faults, recent, ran, overlap, met, late, cleared>> /\ RecyclerOnly

DeleteThrows(p) ==
    /\ reaper[p].at # None /\ reaper[p].step \in 1..Len(DeleteOrder) /\ restarts + faults < MaxFaults
    /\ faults' = faults + 1
    /\ cut' = cut \cup {reaper[p].at}
    /\ Abandon(p)
    /\ UNCHANGED <<rows, registry, recent, ran, overlap, met, late, cleared>> /\ RecyclerOnly

Forget(p) ==
    /\ reaper[p].at # None /\ reaper[p].step > Len(DeleteOrder)
    /\ registry' = [registry EXCEPT ![reaper[p].at] = None]
    /\ Proceed(p)
    /\ UNCHANGED <<rows, faults, ghosts>> /\ RecyclerOnly

\* The sweep ends with registry.clear().
Clear ==
    /\ reaper["sweep"].phase = "work" /\ reaper["sweep"].at = None /\ reaper["sweep"].todo = {}
    /\ registry' = [s \in Sessions |-> None]
    /\ windows' = [ip \in IPs |-> None]
    /\ recent' = [ip \in IPs |-> [age \in 0..(Hour - 1) |-> 0]]
    /\ SetReaper("sweep", Asleep)
    /\ cleared' = cleared \cup Registered
    /\ UNCHANGED <<rows, creation, token, request, restarts, faults, ran, overlap, met, cut, late>>

----------------------------------------------------------------------------
(* Process and clock *)

\* The process stops; the next one starts with an empty registry and a sweep.
NewProcess ==
    /\ restarts + faults < MaxFaults
    /\ restarts' = restarts + 1
    /\ registry' = [s \in Sessions |-> None]
    /\ windows' = [ip \in IPs |-> None]
    /\ recent' = [ip \in IPs |-> [age \in 0..(Hour - 1) |-> 0]]
    /\ creation' = [s \in Sessions |-> IF Creating(s) THEN Done("failed") ELSE creation[s]]
    /\ request' = [s \in Sessions |-> "none"]
    /\ reaper' = [p \in {"tick", "sweep"} |-> IF p = "tick" THEN Asleep ELSE [Asleep EXCEPT !.phase = "list"]]
    /\ cut' = cut \cup {s \in Sessions : Creating(s) \/ Recycling(s)}
    /\ overlap' = FALSE
    /\ ran' = [s \in Sessions |-> 0]
    /\ cleared' = {}
    /\ UNCHANGED <<rows, token, faults, met, late>>

older(age, cap) == IF age < cap THEN age + 1 ELSE age

\* A tick is half an hour: creations and recyclings are over before it ends.
Clock ==
    /\ \A s \in Sessions : ~Creating(s)
    /\ \A p \in {"tick", "sweep"} : reaper[p] = Asleep
    /\ registry' = [s \in Sessions |-> IF s \in Registered THEN [registry[s] EXCEPT !.idle = older(@, Ttl)] ELSE None]
    /\ windows' = [ip \in IPs |-> IF windows[ip] = None THEN None ELSE [windows[ip] EXCEPT !.age = older(@, Hour)]]
    /\ token' = [s \in Sessions |-> IF token[s] = None THEN None ELSE older(token[s], Ttl)]
    /\ recent' = [ip \in IPs |-> [age \in 0..(Hour - 1) |-> IF age = 0 THEN 0 ELSE recent[ip][age - 1]]]
    /\ UNCHANGED <<rows, creation, request, reaper, restarts, faults, ran, overlap, met, cut, late, cleared>>

PlaygroundInit ==
    /\ rows = [s \in Sessions |-> {}]
    /\ creation = [s \in Sessions |-> Done("none")]
    /\ registry = [s \in Sessions |-> None]
    /\ windows = [ip \in IPs |-> None]
    /\ token = [s \in Sessions |-> None]
    /\ request = [s \in Sessions |-> "none"]
    /\ reaper = [p \in {"tick", "sweep"} |-> IF p = "tick" THEN Asleep ELSE [Asleep EXCEPT !.phase = "list"]]
    /\ restarts = 0 /\ faults = 0
    /\ recent = [ip \in IPs |-> [age \in 0..(Hour - 1) |-> 0]]
    /\ ran = [s \in Sessions |-> 0] /\ overlap = FALSE
    /\ met = {} /\ cut = {} /\ late = {} /\ cleared = {}

Visitor(s) ==
    \/ CreateSession(s) \/ InsertRow(s) \/ Register(s)
    \/ ExecuteAgent(s) \/ Decide(s) \/ FindApproval(s) \/ ChangeAgents(s) \/ Write(s)

Recycler(p) == NextWorkspace(p) \/ LookupUser(p) \/ DeleteRows(p) \/ Forget(p)

PlaygroundNext ==
    \/ \E s \in Sessions : Visitor(s)
    \/ Tick \/ SweepOrphans \/ Clear \/ NewProcess \/ Clock
    \/ \E p \in {"tick", "sweep"} : Recycler(p) \/ DeleteThrows(p)

\* The clock and the timers go on, an await returns, an execution ends.
Fairness ==
    /\ WF_playgroundVars(Clock) /\ WF_playgroundVars(Tick)
    /\ WF_playgroundVars(SweepOrphans) /\ WF_playgroundVars(Clear)
    /\ \A p \in {"tick", "sweep"} : WF_playgroundVars(Recycler(p))
    /\ \A s \in Sessions : /\ WF_playgroundVars(InsertRow(s)) /\ WF_playgroundVars(Register(s))

PlaygroundSpec == PlaygroundInit /\ [][PlaygroundNext]_playgroundVars

FairPlaygroundSpec == PlaygroundSpec /\ Fairness

----------------------------------------------------------------------------
(* Properties *)

\* What is younger than each age, of counts by age.
Sums(counts) ==
    LET f[age \in 0..Hour] == IF age = 0 THEN 0 ELSE f[age - 1] + counts[age - 1] IN f

\* The executions an address started in the last hour.
InLastHour(ip) == Sums(recent[ip])[Hour]

\* Limits hold however requests overlap and limits interact: a session's
\* executions; in any hour twice an address's hourly limit, since a window
\* starts afresh instead of rolling; live sessions unless creations overlap.
LimitsHold ==
    /\ \A s \in Sessions : ran[s] <= executionsPerSession
    /\ \A ip \in IPs : InLastHour(ip) <= 2 * executionsPerIpPerHour
    /\ ~overlap => Cardinality(Registered) <= maxConcurrentSessions

\* What recycling leaves behind, foreign keys and cascades considered: nothing;
\* the role, when a creation stopped before its user was inserted or an earlier
\* recycling after the user was deleted; what requests wrote meanwhile or later.
\* Only a sweep that meets a creation may leave other rows.  And a session
\* that is not being recycled has its whole world.
NoTrace ==
    \A s \in Sessions \ met :
        /\ "workspace" \notin rows[s] /\ ~Recycling(s) =>
               rows[s] \subseteq (IF s \in cut THEN {"role"} ELSE {}) \cup
                                (IF s \in late THEN {"approval", "execution", "log", "agent"} ELSE {})
        /\ s \in Registered \ cut /\ ~Recycling(s) /\ "workspace" \in rows[s] => Seed \subseteq rows[s]

\* Every registered session is recycled in the end: the visitor cannot keep
\* it for ever, and a delete that throws is tried again at a later tick, unless
\* the process restarts or the end of a sweep forgets it.
SessionsRecycled ==
    \A s \in Sessions :
        s \in Registered ~> ("workspace" \notin rows[s] \/ s \in cleared \/ restarts > 0)

=============================================================================
