----------------------------- MODULE Dashboard ------------------------------
(***************************************************************************)
(* The dashboard in one browser: the polled feed, the execution panel and  *)
(* the employee page with its editable configuration.  React runs an       *)
(* effect's cleanup before the effect runs again, and drops what reaches a *)
(* component that is gone; fetches are answered late, in any order, or     *)
(* fail.  A request carries whether its effect still listens (`live`), and *)
(* the answer once the server has made it, from its state at that moment.  *)
(* The server refuses an expired token inside GraphQL: an HTTP 200 with    *)
(* the error "Invalid access token".  The dashboard knows only a 401, and  *)
(* the word "unauthorized", as the end of a session; this server sends     *)
(* neither, so only the user signs out.                                    *)
(***************************************************************************)
EXTENDS Naturals, FiniteSets

CONSTANTS
    Tokens,      \* tokens the server issues
    Executions,  \* executions of the workspace
    Agents,      \* its employees
    Slots,       \* fetches the panel may have under way
    Visits,      \* the bounds of a behaviour: records [status, feed, session, panel, page]
                 \* of what it starts from, whether it follows the feed's fetches,
                 \* and how often the user clicks in each part of the interface
    MaxFaults,   \* bound on fetches that fail and tokens that expire
    Null

ASSUME DashboardAssumption == Null \notin Agents

VARIABLES
    status,      \* server: execution -> "none", "running", "paused", "done"
    config,      \* server: employee -> version of its configuration
    expired,     \* server: tokens it refuses
    token,       \* the browser's token, or Null: the sign-in form
    feed,        \* [by, data, error]: by which token, which statuses, which error
    feedReq,     \* Null or [token, live, answer]; inFlight is feedReq # Null
    busy,        \* execution -> Null or the token its approval card decides with
    view,        \* "audit", "employees" or "other"
    panel,       \* [selected, detail, error] of the panel
    panelReqs,   \* slot -> Null or [of, answer]
    page,        \* [agent, detail, dirty, loading, notFound, saving]
    pageReqs,    \* set of [of, cause, live, answer]: the effect's fetch, a save's reload
    followed,    \* the behaviour follows the feed's fetches
    clicks,      \* part of the user interface -> clicks left
    faults,
    crossed,     \* the panel shows the end of another execution than its own
    unlistened,  \* a fetch failed while the panel polled nothing
    raced,       \* the page changed its employee or was edited while saving
    lost         \* an answer replaced a draft with unsaved edits

server == <<status, config, expired>>
session == <<token, feed, feedReq, busy>>
panelVars == <<view, panel, panelReqs>>
pageVars == <<page, pageReqs>>
ghosts == <<crossed, unlistened, raced, lost>>
dashboardVars == <<server, session, panelVars, pageVars, clicks, faults, followed, ghosts>>

NoPanel == [selected |-> Null, detail |-> Null]
NoPage == [agent |-> Null, detail |-> Null, dirty |-> FALSE, loading |-> FALSE,
           notFound |-> FALSE, saving |-> Null]
NoReqs == [k \in Slots |-> Null]

\* request(): the data, or an ApiError of this kind.
Success(data) == [error |-> "none", data |-> data]
Failure(kind) == [error |-> kind, data |-> Null]

Parts == {"session", "panel", "page"}
Click(part) == clicks[part] > 0 /\ clicks' = [clicks EXCEPT ![part] = @ - 1]
Fault == faults < MaxFaults /\ faults' = faults + 1

\* A request with token t fails: refused when t has expired, by a fault otherwise.
Fails(t) == IF t \in expired THEN UNCHANGED faults ELSE Fault

----------------------------------------------------------------------------
(* useCommunityFeed *)

\* load(): nothing while another load, of whatever effect, is in flight.
loadBy(t, req) ==
    IF req = Null /\ t # Null /\ followed THEN [token |-> t, live |-> TRUE, answer |-> Null] ELSE req

\* The effect runs again: the old one stops listening, the new one loads.
Rerun(t) ==
    feedReq' = loadBy(t, IF feedReq = Null THEN Null ELSE [feedReq EXCEPT !.live = FALSE])

\* Without a token App shows the sign-in form: every view is unmounted.
Unmount ==
    /\ view' = "other" /\ panel' = NoPanel /\ panelReqs' = NoReqs
    /\ page' = NoPage /\ pageReqs' = {}

SetToken(t) ==
    /\ token' = t
    /\ Rerun(t)
    /\ IF t = Null THEN Unmount ELSE UNCHANGED <<panelVars, pageVars>>

SignIn(t) ==
    /\ token = Null /\ t \notin expired
    /\ SetToken(t)
    /\ UNCHANGED <<server, feed, busy, clicks, faults, ghosts>>

SignOut ==
    /\ token # Null /\ Click("session")
    /\ SetToken(Null)
    /\ UNCHANGED <<server, feed, busy, faults, ghosts>>

\* refreshTick: the retry button.
Refresh ==
    /\ token # Null /\ Click("session")
    /\ Rerun(token)
    /\ UNCHANGED <<server, token, feed, busy, panelVars, pageVars, faults, ghosts>>

Poll ==
    /\ token # Null /\ feedReq = Null /\ followed
    /\ feedReq' = loadBy(token, Null)
    /\ UNCHANGED <<server, token, feed, busy, panelVars, pageVars, clicks, faults, ghosts>>

ServeFeed ==
    /\ feedReq # Null /\ feedReq.answer = Null
    /\ \/ /\ feedReq.token \notin expired
          /\ feedReq' = [feedReq EXCEPT !.answer = Success(status)]
          /\ UNCHANGED faults
       \/ /\ Fails(feedReq.token)
          /\ feedReq' = [feedReq EXCEPT !.answer =
                            Failure(IF feedReq.token \in expired THEN "invalid token" ELSE "failed")]
    /\ UNCHANGED <<server, token, feed, busy, panelVars, pageVars, clicks, ghosts>>

\* An error leaves what was shown before.
Shown(req) ==
    IF req.answer.error # "none" THEN [feed EXCEPT !.error = req.answer.error]
    ELSE [by |-> req.token, data |-> req.answer.data, error |-> "none"]

\* Mutant of FeedAnswer: a load whose effect is gone returns before the finally.
FeedAnswerNoFinally ==
    /\ feedReq # Null /\ feedReq.answer # Null /\ feedReq.live
    /\ feed' = Shown(feedReq) /\ feedReq' = Null
    /\ UNCHANGED <<server, token, busy, panelVars, pageVars, clicks, faults, ghosts>>

\* The answer, if it is still wanted; inFlight is reset in any case.
FeedAnswer ==
    /\ feedReq # Null /\ feedReq.answer # Null
    /\ feed' = IF feedReq.live THEN Shown(feedReq) ELSE feed
    /\ feedReq' = Null
    /\ UNCHANGED <<server, token, busy, panelVars, pageVars, clicks, faults, ghosts>>

----------------------------------------------------------------------------
(* Approval cards and the run form *)

Listed(state) == {e \in Executions : feed.data # Null /\ feed.data[e] = state}

DecideApproval(e) ==
    /\ token # Null /\ e \in Listed("paused") /\ busy[e] = Null /\ Click("session")
    /\ busy' = [busy EXCEPT ![e] = token]
    /\ UNCHANGED <<server, token, feed, feedReq, panelVars, pageVars, faults, ghosts>>

\* A decision is refused when somebody else has decided, or the token has
\* expired; then nothing is refreshed.
DecideAnswer(e) ==
    /\ busy[e] # Null
    /\ busy' = [busy EXCEPT ![e] = Null]
    /\ LET accepted == status[e] = "paused" /\ busy[e] \notin expired
       IN /\ status' = [status EXCEPT ![e] = IF accepted THEN "running" ELSE @]
          /\ IF accepted /\ token # Null THEN Rerun(token) ELSE UNCHANGED feedReq
    /\ UNCHANGED <<config, expired, token, feed, panelVars, pageVars, clicks, faults, ghosts>>

Select(e) ==
    /\ panel' = [panel EXCEPT !.selected = e]
    /\ \E k \in Slots : panelReqs[k] = Null /\ panelReqs' = [panelReqs EXCEPT ![k] = [of |-> e, answer |-> Null]]

\* executeAgent answers: the execution is shown in the audit view, the feed reloaded.
Submit(e) ==
    /\ token # Null /\ token \notin expired
    /\ status[e] = "none" /\ view # "audit" /\ Click("panel")
    /\ status' = [status EXCEPT ![e] = "running"]
    /\ view' = "audit" /\ Select(e)
    /\ page' = NoPage /\ pageReqs' = {}
    /\ Rerun(token)
    /\ UNCHANGED <<config, expired, token, feed, busy, faults, ghosts>>

----------------------------------------------------------------------------
(* ExecutionDetailPanel *)

\* One panel for all executions: a new id only makes another load().
OpenExecution(e) ==
    /\ token # Null /\ status[e] # "none" /\ panel.selected # e /\ Click("panel")
    /\ view' = "audit" /\ Select(e)
    /\ page' = NoPage /\ pageReqs' = {}
    /\ UNCHANGED <<server, session, faults, ghosts>>

ClosePanel ==
    /\ panel.selected # Null /\ Click("panel")
    /\ panel' = NoPanel /\ panelReqs' = NoReqs
    /\ crossed' = FALSE /\ unlistened' = FALSE
    /\ UNCHANGED <<server, session, view, pageVars, faults, raced, lost>>

TERMINAL_STATUSES == {"done"}

\* Mutant of polls: an execution that waits for a human is not polled.
pollsRunning(detail) == detail # Null /\ detail.status \notin TERMINAL_STATUSES \cup {"paused"}

polls(detail) == detail # Null /\ detail.status \notin TERMINAL_STATUSES

PollPanel ==
    /\ panel.selected # Null /\ polls(panel.detail)
    /\ \E k \in Slots :
           /\ panelReqs[k] = Null
           /\ panelReqs' = [panelReqs EXCEPT ![k] = [of |-> panel.selected, answer |-> Null]]
    /\ UNCHANGED <<server, session, view, panel, pageVars, clicks, faults, ghosts>>

ServePanel(k) ==
    /\ panelReqs[k] # Null /\ panelReqs[k].answer = Null
    /\ \/ /\ token \notin expired /\ UNCHANGED faults
          /\ panelReqs' = [panelReqs EXCEPT ![k].answer = Success(status[panelReqs[k].of])]
       \/ Fails(token) /\ panelReqs' = [panelReqs EXCEPT ![k].answer = Failure("failed")]
    /\ UNCHANGED <<server, session, view, panel, pageVars, clicks, ghosts>>

\* Whatever arrives is shown: nobody compares it with the selection.
PanelAnswer(k) ==
    /\ panelReqs[k] # Null /\ panelReqs[k].answer # Null
    /\ panelReqs' = [panelReqs EXCEPT ![k] = Null]
    /\ LET req == panelReqs[k]
       IN /\ panel' = IF req.answer.error # "none" THEN panel
                      ELSE [panel EXCEPT !.detail = [of |-> req.of, status |-> req.answer.data]]
          /\ LET wanted == req.answer.error = "none" /\ req.of = panel.selected
             IN /\ crossed' = (~wanted /\ (crossed \/ req.answer.data \in TERMINAL_STATUSES))
                /\ unlistened' = (~wanted /\ (unlistened \/ (req.answer.error # "none" /\ ~polls(panel.detail))))
    /\ UNCHANGED <<server, session, view, pageVars, clicks, faults, raced, lost>>

----------------------------------------------------------------------------
(* EmployeeDetailView *)

\* Mutant of Abandoned: the cleanup forgets to cancel.
AbandonedNever(reqs) == reqs

\* The cleanup reaches the effect's own fetch, and not the reload of a save.
Abandoned(reqs) == {IF r.cause = "effect" THEN [r EXCEPT !.live = FALSE] ELSE r : r \in reqs}

Fetch(a, cause) == [of |-> a, cause |-> cause, live |-> TRUE, answer |-> Null]

\* Who leaves an employee gives its edits up.
OpenEmployee(a) ==
    /\ token # Null /\ page.agent # a /\ Click("page")
    /\ view' = "employees" /\ panel' = NoPanel /\ panelReqs' = NoReqs
    /\ page' = [page EXCEPT !.agent = a, !.loading = TRUE, !.notFound = FALSE, !.dirty = FALSE]
    /\ pageReqs' = Abandoned(pageReqs) \cup {Fetch(a, "effect")}
    /\ crossed' = FALSE /\ unlistened' = FALSE
    /\ raced' = (page.agent # Null /\ (raced \/ page.saving # Null \/ \E r \in pageReqs : r.cause = "save"))
    /\ lost' = (page.agent # Null /\ lost)
    /\ UNCHANGED <<server, session, faults>>

ServePage(r) ==
    /\ r.answer = Null
    /\ \/ /\ token \notin expired /\ UNCHANGED faults
          /\ pageReqs' = (pageReqs \ {r}) \cup {[r EXCEPT !.answer = Success(config[r.of])]}
       \/ Fails(token) /\ pageReqs' = (pageReqs \ {r}) \cup {[r EXCEPT !.answer = Failure("failed")]}
    /\ UNCHANGED <<server, session, panelVars, page, clicks, ghosts>>

\* A fresh detail replaces the draft.
PageAnswer(r) ==
    /\ r.answer # Null
    /\ pageReqs' = pageReqs \ {r}
    /\ page' = IF ~r.live THEN page
               ELSE IF r.answer.error # "none" THEN [page EXCEPT !.notFound = TRUE, !.loading = FALSE]
               ELSE [page EXCEPT !.detail = [of |-> r.of, version |-> r.answer.data],
                                 !.dirty = FALSE, !.loading = FALSE]
    /\ lost' = (lost \/ (page.dirty /\ ~page'.dirty))
    /\ UNCHANGED <<server, session, panelVars, clicks, faults, crossed, unlistened, raced>>

Editable == page.agent # Null /\ ~page.loading /\ ~page.notFound /\ page.detail # Null

Edit ==
    /\ Editable /\ ~page.dirty /\ Click("page")
    /\ page' = [page EXCEPT !.dirty = TRUE]
    /\ raced' = (raced \/ page.saving # Null)
    /\ UNCHANGED <<server, session, panelVars, pageReqs, faults, crossed, unlistened, lost>>

\* The whole draft goes to the employee that was loaded; load() is the one of this render.
Save ==
    /\ Editable /\ page.saving = Null /\ Click("page")
    /\ page' = [page EXCEPT !.saving = [of |-> page.detail.of, reload |-> page.agent], !.dirty = FALSE]
    /\ UNCHANGED <<server, session, panelVars, pageReqs, faults, ghosts>>

SaveAnswer ==
    /\ page.saving # Null
    /\ \/ /\ token \notin expired
          /\ config' = [config EXCEPT ![page.saving.of] = @ + 1]
          /\ page' = [page EXCEPT !.saving = Null, !.loading = TRUE, !.notFound = FALSE]
          /\ pageReqs' = pageReqs \cup {Fetch(page.saving.reload, "save")}
          /\ UNCHANGED faults
       \/ Fails(token) /\ page' = [page EXCEPT !.saving = Null, !.dirty = TRUE] /\ UNCHANGED <<config, pageReqs>>
    /\ UNCHANGED <<status, expired, session, panelVars, clicks, ghosts>>

----------------------------------------------------------------------------
(* The server goes on without the browser *)

Progress(e) ==
    /\ \/ status[e] = "running" /\ \E next \in {"paused", "done"} : status' = [status EXCEPT ![e] = next]
       \/ status[e] = "paused" /\ status' = [status EXCEPT ![e] = "done"]
    /\ UNCHANGED <<config, expired, session, panelVars, pageVars, clicks, faults, ghosts>>

Expire ==
    /\ token # Null /\ token \notin expired /\ Fault
    /\ expired' = expired \cup {token}
    /\ UNCHANGED <<status, config, session, panelVars, pageVars, clicks, ghosts>>

DashboardInit ==
    /\ \E visit \in Visits : status = visit.status /\ followed = visit.feed
                              /\ clicks = [p \in Parts |-> visit[p]]
    /\ config = [a \in Agents |-> 1]
    /\ expired = {} /\ token = Null
    /\ feed = [by |-> Null, data |-> Null, error |-> "none"] /\ feedReq = Null
    /\ busy = [e \in Executions |-> Null]
    /\ view = "other" /\ panel = NoPanel /\ panelReqs = NoReqs
    /\ page = NoPage /\ pageReqs = {}
    /\ faults = 0
    /\ crossed = FALSE /\ unlistened = FALSE /\ raced = FALSE /\ lost = FALSE

Answers ==
    \/ ServeFeed \/ FeedAnswer
    \/ \E k \in Slots : ServePanel(k) \/ PanelAnswer(k)
    \/ \E r \in pageReqs : ServePage(r) \/ PageAnswer(r)
    \/ SaveAnswer \/ \E e \in Executions : DecideAnswer(e)

DashboardStep ==
    \/ \E t \in Tokens : SignIn(t)
    \/ SignOut \/ Refresh \/ Poll \/ ClosePanel \/ PollPanel \/ Edit \/ Save \/ Expire
    \/ \E e \in Executions : DecideApproval(e) \/ Submit(e) \/ OpenExecution(e) \/ Progress(e)
    \/ \E a \in Agents : OpenEmployee(a)
    \/ Answers

DashboardNext == DashboardStep /\ UNCHANGED followed

\* Intervals fire, and every fetch is answered.
Fairness ==
    /\ WF_dashboardVars(Poll /\ UNCHANGED followed)
    /\ WF_dashboardVars((ServeFeed \/ FeedAnswer) /\ UNCHANGED followed)
    /\ WF_dashboardVars(PollPanel /\ UNCHANGED followed)
    /\ \A k \in Slots : WF_dashboardVars((ServePanel(k) \/ PanelAnswer(k)) /\ UNCHANGED followed)

DashboardSpec == DashboardInit /\ [][DashboardNext]_dashboardVars

FairSpec == DashboardSpec /\ Fairness

----------------------------------------------------------------------------
(* Properties *)

\* The feed catches up with the server, whatever loads were cancelled by
\* sign-outs, refreshes and decisions on the way.  Under a token that expired
\* it cannot: nobody signs the user out and what was shown stays, but the
\* error comes to stand above it.
FeedCatchesUp ==
    []<>(\/ token = Null \/ ~followed
         \/ token \in expired /\ feed.error = "invalid token"
         \/ token \notin expired /\ feed.by = token /\ feed.data = status)

\* The open panel catches up with the execution it is opened for, although
\* polls overlap and answers come out of order - unless the last answer was
\* that another execution has ended, or a fetch failed while nothing was polled:
\* either leaves the panel without a timer.  An expired token leaves it stale.
PanelCatchesUp ==
    []<>(\/ panel.selected = Null \/ token \in expired \/ crossed \/ unlistened
         \/ panel.detail = [of |-> panel.selected, status |-> status[panel.selected]])

\* The employee page, when it has loaded, is about the employee of its route,
\* and no answer throws unsaved edits away - unless the user went to another
\* employee, or edited, while a save was under way.
PageFollowsRoute ==
    ~raced =>
        /\ ~lost
        /\ Editable => page.detail.of = page.agent

=============================================================================
