----------------------------- MODULE DemoPages ------------------------------
(***************************************************************************)
(* The two static pages the backend serves: the demo console and the       *)
(* hosted playground.  Each follows one execution with an interval that    *)
(* stops at its end, and lets a human decide; fetches are answered late,   *)
(* in any order, or not at all.  The console belongs to one workspace; in  *)
(* the playground every run gets a session, and a token, of its own, so a  *)
(* token is named by the run it was issued for.                            *)
(***************************************************************************)
EXTENDS Naturals, FiniteSets

CONSTANTS
    Tasks,       \* executions, each started by one click
    Polls,       \* slots: polls of an execution that may be under way
    Loads,       \* slots: loads of the approval queue that may be under way
    Decisions,   \* slots: decisions that may be under way
    MaxActs,     \* bound on clicks
    MaxLosses,   \* bound on fetches that fail
    Nothing

VARIABLES
    site,        \* the page that is open: "console" or "playground"
    state,       \* server: task -> "none", "running", "paused", "done"
    visitor,     \* playground: the run whose token is used
    launching,   \* task -> "no", "session" (being created), "execute" (unanswered)
    tracked,     \* trackExecutionId, executionId
    polling,     \* pollTimer # null
    ticks,       \* slot -> Nothing or [of, by, answer]
    shown,       \* [of, status] of the timeline
    cards,       \* console: task -> "none", "open", "shut" (its buttons are disabled)
    lists,       \* slot -> Nothing or [answer]
    deciding,    \* slot -> Nothing or [of, by, at]: "ask", "sent", "taken", "refused"
    acts, losses,
    late         \* an answer came after the one that should have been the last

timeline == <<tracked, polling, ticks, shown, late>>
queue == <<cards, lists>>
demoVars == <<site, state, visitor, launching, timeline, queue, deciding, acts, losses>>

Act == acts < MaxActs /\ acts' = acts + 1
Lose == losses < MaxLosses /\ losses' = losses + 1

\* The server answers a token with what is in its workspace only.
Readable(by, e) == site = "console" \/ by = e

TERMINAL == {"done"}

DemoInit ==
    /\ site \in {"console", "playground"}
    /\ state = [e \in Tasks |-> "none"]
    /\ visitor = Nothing /\ launching = [e \in Tasks |-> "no"]
    /\ tracked = Nothing /\ polling = FALSE /\ ticks = [k \in Polls |-> Nothing] /\ shown = Nothing
    /\ cards = [e \in Tasks |-> "none"] /\ lists = [k \in Loads |-> Nothing]
    /\ deciding = [k \in Decisions |-> Nothing]
    /\ acts = 0 /\ losses = 0 /\ late = FALSE

----------------------------------------------------------------------------
(* Following an execution *)

AskAbout(e, by) ==
    \E k \in Polls : ticks[k] = Nothing
                       /\ ticks' = [ticks EXCEPT ![k] = [of |-> e, by |-> by, answer |-> Nothing]]

\* The old interval is replaced and the first tick comes at once; what the
\* old interval asked for is still under way.
trackExecution(e) ==
    /\ tracked' = e /\ polling' = TRUE /\ late' = FALSE
    /\ AskAbout(e, visitor)
    /\ UNCHANGED shown

Tick ==
    /\ polling
    /\ AskAbout(tracked, visitor)
    /\ UNCHANGED <<site, state, visitor, launching, tracked, polling, shown, late, queue,
                   deciding, acts, losses>>

ServeTick(k) ==
    /\ ticks[k] # Nothing /\ ticks[k].answer = Nothing
    /\ \/ /\ ticks' = [ticks EXCEPT ![k].answer =
                          IF Readable(ticks[k].by, ticks[k].of) THEN state[ticks[k].of] ELSE "null"]
          /\ UNCHANGED losses
       \/ Lose /\ ticks' = [ticks EXCEPT ![k].answer = "lost"]
    /\ UNCHANGED <<site, state, visitor, launching, tracked, polling, shown, late, queue,
                   deciding, acts>>

\* Nobody compares what arrives with what is tracked.
Render(e, status) == shown' = [of |-> e, status |-> status]

\* Mutant of stops: an execution that waits for a human is not polled.
stopsEarly(status) == status \in TERMINAL \cup {"paused"}

stops(status) == status \in TERMINAL

TickAnswer(k) ==
    /\ ticks[k] # Nothing /\ ticks[k].answer # Nothing
    /\ ticks' = [ticks EXCEPT ![k] = Nothing]
    /\ LET e == ticks[k].of
           status == ticks[k].answer
       IN IF status \in {"null", "lost"} THEN UNCHANGED <<polling, shown, late>>
          ELSE /\ Render(e, status)
               /\ polling' = (polling /\ ~stops(status))
               /\ late' = IF status \in TERMINAL THEN e # tracked
                          ELSE late \/ shown = [of |-> tracked, status |-> "done"]
    /\ UNCHANGED <<site, state, visitor, launching, tracked, queue, deciding, acts, losses>>

----------------------------------------------------------------------------
(* runBtn: the console may be clicked again at once, the playground's button *)
(* is disabled until the run is answered.                                    *)

Run(e) ==
    /\ state[e] = "none" /\ launching[e] = "no" /\ Act
    /\ IF site = "console"
       THEN launching' = [launching EXCEPT ![e] = "execute"] /\ state' = [state EXCEPT ![e] = "running"]
       ELSE /\ \A f \in Tasks : launching[f] = "no"
            /\ launching' = [launching EXCEPT ![e] = "session"]
            /\ UNCHANGED state
    /\ UNCHANGED <<site, visitor, timeline, queue, deciding, losses>>

\* The token of the session replaces the one in use; then the agent is run.
OpenSession(e) ==
    /\ launching[e] = "session"
    /\ visitor' = e
    /\ launching' = [launching EXCEPT ![e] = "execute"]
    /\ state' = [state EXCEPT ![e] = "running"]
    /\ UNCHANGED <<site, timeline, queue, deciding, acts, losses>>

\* communityExecuteAgent answers when the execution has ended or paused.
Launched(e) ==
    /\ launching[e] = "execute" /\ state[e] # "running"
    /\ launching' = [launching EXCEPT ![e] = "no"]
    /\ trackExecution(e)
    /\ UNCHANGED <<site, state, visitor, queue, deciding, acts, losses>>

LaunchFails(e) ==
    /\ launching[e] # "no" /\ Lose
    /\ launching' = [launching EXCEPT ![e] = "no"]
    /\ UNCHANGED <<site, state, visitor, timeline, queue, deciding, acts>>

----------------------------------------------------------------------------
(* The console's approval cards *)

LoadApprovals ==
    /\ site = "console"
    /\ \E k \in Loads : lists[k] = Nothing /\ lists' = [lists EXCEPT ![k] = [answer |-> Nothing]]
    /\ UNCHANGED <<site, state, visitor, launching, timeline, cards, deciding, acts, losses>>

ServeList(k) ==
    /\ lists[k] # Nothing /\ lists[k].answer = Nothing
    /\ lists' = [lists EXCEPT ![k].answer = {e \in Tasks : state[e] = "paused"}]
    /\ UNCHANGED <<site, state, visitor, launching, timeline, cards, deciding, acts, losses>>

ListFails(k) ==
    /\ lists[k] # Nothing /\ Lose
    /\ lists' = [lists EXCEPT ![k] = Nothing]
    /\ UNCHANGED <<site, state, visitor, launching, timeline, cards, deciding, acts>>

\* The cards are built anew, with open buttons and an empty comment.
RenderApprovals(k) ==
    /\ lists[k] # Nothing /\ lists[k].answer # Nothing
    /\ cards' = [e \in Tasks |-> IF e \in lists[k].answer THEN "open" ELSE "none"]
    /\ lists' = [lists EXCEPT ![k] = Nothing]
    /\ UNCHANGED <<site, state, visitor, launching, timeline, deciding, acts, losses>>

OpenLink(e) ==
    /\ cards[e] # "none" /\ Act
    /\ trackExecution(e)
    /\ UNCHANGED <<site, state, visitor, launching, queue, deciding, losses>>

----------------------------------------------------------------------------
(* Deciding: the console names the approval of its card, the playground asks *)
(* which one is pending and takes the first.                                 *)

SendDecision(decision) ==
    \E k \in Decisions : deciding[k] = Nothing /\ deciding' = [deciding EXCEPT ![k] = decision]

DecideCard(e) ==
    /\ cards[e] = "open" /\ Act
    /\ cards' = [cards EXCEPT ![e] = "shut"]
    /\ SendDecision([of |-> e, by |-> visitor, at |-> "sent"])
    /\ UNCHANGED <<site, state, visitor, launching, timeline, lists, losses>>

DecideShown ==
    /\ site = "playground" /\ shown # Nothing /\ shown.status = "paused" /\ Act
    /\ SendDecision([of |-> Nothing, by |-> visitor, at |-> "ask"])
    /\ UNCHANGED <<site, state, visitor, launching, timeline, queue, losses>>

\* The mutation carries the token of the moment it is sent.
PickPending(k) ==
    /\ deciding[k] # Nothing /\ deciding[k].at = "ask"
    /\ LET pending == {e \in Tasks : state[e] = "paused" /\ Readable(deciding[k].by, e)}
       IN deciding' = [deciding EXCEPT ![k] =
              IF pending = {} THEN Nothing
              ELSE [of |-> CHOOSE e \in pending : TRUE, by |-> visitor, at |-> "sent"]]
    /\ UNCHANGED <<site, state, visitor, launching, timeline, queue, acts, losses>>

\* Approved, the execution goes on; rejected, it ends.
ServeDecision(k) ==
    /\ deciding[k] # Nothing /\ deciding[k].at = "sent"
    /\ LET e == deciding[k].of
       IN IF state[e] = "paused" /\ Readable(deciding[k].by, e)
          THEN /\ \E next \in {"running", "done"} : state' = [state EXCEPT ![e] = next]
               /\ deciding' = [deciding EXCEPT ![k].at = "taken"]
          ELSE deciding' = [deciding EXCEPT ![k].at = "refused"] /\ UNCHANGED state
    /\ UNCHANGED <<site, visitor, launching, timeline, queue, acts, losses>>

\* The playground ticks whatever the answer says.
Decided(k) ==
    /\ deciding[k] # Nothing
    /\ LET e == deciding[k].of
           taken == deciding[k].at = "taken"
       IN /\ (taken /\ state[e] # "running") \/ deciding[k].at = "refused"
          /\ CASE site = "playground" -> AskAbout(tracked, visitor) /\ UNCHANGED <<tracked, polling, shown, late>>
               [] site = "console" /\ taken /\ tracked = e -> trackExecution(e)
               [] OTHER -> UNCHANGED timeline
          /\ cards' = IF ~taken /\ cards[e] = "shut" THEN [cards EXCEPT ![e] = "open"] ELSE cards
    /\ deciding' = [deciding EXCEPT ![k] = Nothing]
    /\ UNCHANGED <<site, state, visitor, launching, lists, acts, losses>>

DecisionLost(k) ==
    /\ deciding[k] # Nothing /\ Lose
    /\ cards' = [e \in Tasks |-> IF e = deciding[k].of /\ cards[e] = "shut" THEN "open" ELSE cards[e]]
    /\ deciding' = [deciding EXCEPT ![k] = Nothing]
    /\ UNCHANGED <<site, state, visitor, launching, timeline, lists, acts>>

----------------------------------------------------------------------------
\* The server works on an execution until it ends or pauses.
Work(e) ==
    /\ state[e] = "running"
    /\ \E next \in {"paused", "done"} : state' = [state EXCEPT ![e] = next]
    /\ UNCHANGED <<site, visitor, launching, timeline, queue, deciding, acts, losses>>

DemoNext ==
    \/ Tick \/ LoadApprovals \/ DecideShown
    \/ \E k \in Polls : ServeTick(k) \/ TickAnswer(k)
    \/ \E k \in Loads : ServeList(k) \/ ListFails(k) \/ RenderApprovals(k)
    \/ \E k \in Decisions : PickPending(k) \/ ServeDecision(k) \/ Decided(k) \/ DecisionLost(k)
    \/ \E e \in Tasks :
           \/ Run(e) \/ OpenSession(e) \/ Launched(e) \/ LaunchFails(e)
           \/ OpenLink(e) \/ DecideCard(e) \/ Work(e)

\* Intervals fire, and what is asked is answered.
DemoFairness ==
    /\ WF_demoVars(Tick)
    /\ WF_demoVars(LoadApprovals)
    /\ \A k \in Polls : WF_demoVars(ServeTick(k) \/ TickAnswer(k))
    /\ \A k \in Loads : WF_demoVars(ServeList(k) \/ RenderApprovals(k))

----------------------------------------------------------------------------
(* Properties *)

\* The timeline catches up with the execution it follows, although intervals
\* are replaced while their answers are under way - unless an answer came
\* after the end was shown, or was the end of another execution; or the
\* playground has the token of another session already, whose run failed or
\* is not answered yet.  And the approval cards catch up with the queue.
PagesCatchUp ==
    /\ []<>(\/ tracked = Nothing \/ late \/ ~Readable(visitor, tracked)
            \/ shown = [of |-> tracked, status |-> state[tracked]])
    /\ []<>(\/ site = "playground"
            \/ \A e \in Tasks : cards[e] # "none" <=> state[e] = "paused")

=============================================================================
