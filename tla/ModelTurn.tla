------------------------------ MODULE ModelTurn ------------------------------
(***************************************************************************)
(* What one ReAct loop of the backend executor spends on the model and     *)
(* makes of its answers: the prompt and its budgets, the call, the parsing *)
(* of the answer, the one repair, and the loop again after an approval.    *)
(* AgentRuntime has the same loop with its turns reduced to their outcome. *)
(* Sizes are in tokens; an answer is what its three parsers would find.    *)
(***************************************************************************)
EXTENDS Integers, Sequences, FiniteSetsExt

CONSTANTS
    MaxTokens, MaxStepTokens, MaxOutputTokensPerStep, MaxReActIterations, MaxToolCalls,
    MinimumUsefulOutputTokens,
    Sizes,       \* record of the sizes of the prompt's parts
    SystemBudgets, \* totalInputTokenBudget of the context policy, or None
    Overrun,     \* what a provider may bill beyond the estimate and the cap
    GenerationTokens, \* what a generation sub-call may bill: it has no cap
    Tools, MaxResumes, None

\* What the prompt is made of, and a step or the repair's request.
Parts == {"rules", "high", "normal", "exemplars", "knowledge", "memory", "step", "request", "repair"}

\* The source's caps are positive: a call may always answer with a token.
ASSUME SizesAssumption ==
    /\ {MaxTokens, MaxStepTokens, MaxOutputTokensPerStep, MaxReActIterations, MaxToolCalls,
        MinimumUsefulOutputTokens, Overrun, GenerationTokens, MaxResumes} \subseteq Nat
    /\ MaxOutputTokensPerStep >= 1 /\ MinimumUsefulOutputTokens >= 1
    /\ Sizes \in [Parts -> Nat]
    /\ None \notin Tools

VARIABLES
    pc,
    total,       \* totalTokens
    prompt,      \* agentPrompt: "full", or "short" once cropped
    hasTriedSectionCrop,
    jitter,      \* [tool, count]: lastJitterDigest, jitterRepeatCount
    cap,         \* maxTokens of the call under way
    turn,        \* [tokens, content, action]: what this turn has used and understood
    steps,       \* persisted steps: sequence of [tokens, tool]
    policy,      \* the context policy's budget
    resumes,
    reported,    \* usage of all the calls whose answer the adapter returned
    dropped,     \* of these, by answers the loop threw away
    rejectedCall, \* billed for a call whose answer the adapter refused: it threw,
    rejectedGenerations, \* ... and its usage with it; by generation sub-calls
    generated,   \* a generation sub-call was the last call that was reported
    shown        \* what the finish step shows the user

locals == <<total, prompt, hasTriedSectionCrop, jitter>>
rejected == <<rejectedCall, rejectedGenerations>>
ghosts == <<reported, dropped, rejected, generated, shown>>
vars == <<pc, locals, cap, turn, steps, policy, resumes, ghosts>>

Actions ==
    [type : {"finish"}, prompt : {"text", "blank", "envelope"}]
    \cup [type : {"tool_call"}, tool : Tools \cup {None}]
    \cup [type : {"llm_generate", "human_handoff", "undefined"}]

NoTurn == [tokens |-> 0, content |-> 0, action |-> None]

----------------------------------------------------------------------------
(* The prompt *)

\* Segments in the order in which they are dropped.
trimmable == <<"exemplars", "knowledge", "memory">>

\* The size of the system message after as few drops as the budget asks for.
enforceSystemTokenBudget(fixed, budget) ==
    LET Kept(j, k) == IF k < j THEN Sizes[trimmable[j]] ELSE 0
        Without(k) == fixed + Kept(1, k) + Kept(2, k) + Kept(3, k)
        Fits(k) == budget = None \/ Without(k) <= budget \/ k = Len(trimmable)
    IN Without(CHOOSE k \in 0..Len(trimmable) : Fits(k) /\ \A j \in 0..(k - 1) : ~Fits(j))

systemContent(form) ==
    enforceSystemTokenBudget(Sizes.rules + Sizes.high + (IF form = "full" THEN Sizes.normal ELSE 0), policy)

\* Every step so far is replayed, cut to a bounded size, then the request.
conversation == Len(steps) * Sizes.step + Sizes.request

estimateChatInputTokens(form) == systemContent(form) + conversation

\* Sections marked normal are dropped, unless there are none, or only such.
recomposeDroppingNormalSections(form) ==
    IF form = "full" /\ Sizes.high > 0 /\ Sizes.normal > 0 THEN "short" ELSE None

----------------------------------------------------------------------------
(* Understanding an answer *)

\* What a text holds: the JSON it is as a whole (or in one code fence), a
\* "Thought:" marker, what follows an "Action:" marker, the JSON inside.  JSON
\* with neither thought nor action is bare; an action may be a mere word.
Word == [type |-> "word"]
Bare == [type |-> "bare"]
Objects == Actions \cup {None, Bare}
Texts == [whole : Objects, thought : BOOLEAN, action : Objects \cup {Word}, inner : Objects]

tryParseAsJson(text) == IF text.whole \in Actions THEN text.whole ELSE None

\* An action that is no JSON becomes a finish without an answer.
tryParseMarkerFormat(text) ==
    CASE text.action \in Actions -> text.action
      [] text.action = Bare -> [type |-> "undefined"]
      [] text.action = Word \/ (text.action = None /\ text.thought) -> [type |-> "finish", prompt |-> "blank"]
      [] OTHER -> None

tryExtractEmbeddedJson(text) == IF text.inner \in Actions THEN text.inner ELSE None

\* Mutant of materializeFinalAnswer: an envelope in a string passes for an answer.
materializeFinalAnswerLoosely(answer) == answer # "blank"

materializeFinalAnswer(answer) == answer = "text"

validateStructuredAction(action) ==
    CASE action.type = "finish" -> materializeFinalAnswer(action.prompt)
      [] action.type = "tool_call" -> action.tool # None
      [] OTHER -> action.type # "undefined"

\* What the parsers find, in the order in which they are tried.
parsed(text) ==
    SelectSeq(<<tryParseAsJson(text), tryParseMarkerFormat(text), tryExtractEmbeddedJson(text)>>,
              LAMBDA action : action # None)

\* The first parser that finds something decides; None is MODEL_RESPONSE_INVALID.
parseThoughtAndAction(text) ==
    LET found == parsed(text)
    IN IF found # <<>> /\ validateStructuredAction(Head(found)) THEN Head(found) ELSE None

\* A provider's native tool call takes precedence over the text.
extractNativeAction(calls, text) ==
    IF calls # <<>> THEN [type |-> "tool_call", tool |-> Head(calls)] ELSE parseThoughtAndAction(text)

\* Every way a model's answer, or the repair of one, may be understood.
Answers == {extractNativeAction(calls, text) : calls \in {<<>>} \cup {<<t>> : t \in Tools}, text \in Texts}
Repairs == {parseThoughtAndAction(text) : text \in Texts}

----------------------------------------------------------------------------
(* The turn *)

\* The tokens of all steps, added up one after the other.
tokensOf(list) ==
    LET sum[n \in 0..Len(list)] == IF n = 0 THEN 0 ELSE sum[n - 1] + list[n].tokens
    IN sum[Len(list)]

Persist(tokens, tool) == steps' = Append(steps, [tokens |-> tokens, tool |-> tool])

End == pc' = "ended" /\ turn' = NoTurn /\ cap' = 0

\* The deadline has passed, or the Smart Cap is reached.
StopBeforeTurn ==
    /\ pc = "loop"
    /\ Persist(0, None) /\ End
    /\ UNCHANGED <<locals, policy, resumes, ghosts>>

\* Before the call: crop the prompt once, or stop, when too little would remain.
Preflight ==
    /\ pc = "loop" /\ Len(steps) < MaxReActIterations
    /\ LET remaining == MaxTokens - total
           Tight(form) == remaining <= estimateChatInputTokens(form) + MinimumUsefulOutputTokens
           crops == Tight(prompt) /\ ~hasTriedSectionCrop
           shorter == recomposeDroppingNormalSections(prompt)
           form == IF crops /\ shorter # None THEN shorter ELSE prompt
       IN /\ hasTriedSectionCrop' = (hasTriedSectionCrop \/ crops)
          /\ prompt' = form
          /\ \/ Tight(form) /\ Persist(0, None) /\ End
             \/ /\ ~Tight(form)
                /\ cap' = Min({MaxOutputTokensPerStep, remaining - estimateChatInputTokens(form)})
                /\ pc' = "chat" /\ UNCHANGED <<steps, turn>>
    /\ UNCHANGED <<total, jitter, policy, resumes, ghosts>>

\* What a call may cost: the estimate, what the provider puts out, its overrun.
Costs(estimated, limit) == {estimated + out + over : out \in {1, limit}, over \in {0, Overrun}}

\* The provider fails and bills nothing, or it answers and bills, and the
\* adapter refuses the answer: the step is recorded with no tokens.
ChatFails ==
    /\ pc = "chat"
    /\ Persist(0, None) /\ End
    /\ \/ UNCHANGED <<rejectedCall, generated>>
       \/ generated' = FALSE /\ rejectedCall' \in Costs(estimateChatInputTokens(prompt), cap)
    /\ UNCHANGED <<locals, policy, resumes, reported, dropped, rejectedGenerations, shown>>

Report(tokens, generation) ==
    /\ reported' = reported + tokens
    /\ generated' = generation

\* After the answer: too large for one step it ends the loop; over the budget it is dropped and the turn taken again
\* with a cropped prompt, or the loop ends; else it is understood.
Answered(used, out, action) ==
    LET crops == ~hasTriedSectionCrop
        shorter == recomposeDroppingNormalSections(prompt)
    IN /\ total' = total + used /\ Report(used, FALSE)
       /\ \/ /\ used > MaxStepTokens
             /\ Persist(used, None) /\ End
             /\ UNCHANGED <<hasTriedSectionCrop, prompt, dropped>>
          \/ /\ used <= MaxStepTokens /\ total' > MaxTokens /\ crops /\ shorter # None
             /\ prompt' = shorter /\ dropped' = dropped + used
             /\ hasTriedSectionCrop' = TRUE
             /\ pc' = "loop" /\ cap' = 0 /\ UNCHANGED <<steps, turn>>
          \/ /\ used <= MaxStepTokens /\ total' > MaxTokens /\ ~(crops /\ shorter # None)
             /\ hasTriedSectionCrop' = TRUE
             /\ Persist(used, None) /\ End
             /\ UNCHANGED <<prompt, dropped>>
          \/ /\ used <= MaxStepTokens /\ total' <= MaxTokens
             /\ turn' = [tokens |-> used, content |-> out, action |-> action]
             /\ pc' = IF action = None THEN "repair" ELSE "act"
             /\ cap' = 0
             /\ UNCHANGED <<hasTriedSectionCrop, prompt, steps, dropped>>

\* The call: a provider bills the estimate, what it put out and its overrun.
Chat ==
    /\ pc = "chat"
    /\ \E over \in {0, Overrun}, out \in {1, cap}, action \in Answers :
          Answered(estimateChatInputTokens(prompt) + out + over, out, action)
    /\ UNCHANGED <<jitter, policy, resumes, rejected, shown>>

\* Mutant of repairUsage: a repair that failed is not added to the step.
repairUsageIfParsed(repaired, repairTokens) == turn.tokens + (IF repaired THEN repairTokens ELSE 0)

\* effectiveResponse: both calls together, whether the repair helped or not.
repairUsage(repaired, repairTokens) == turn.tokens + repairTokens

\* One more call, that may only finish; skipped when too little is left for it.
RepairStructuredResponse ==
    /\ pc = "repair"
    /\ LET estimated == Sizes.repair + turn.content
           maxOutputTokens == Min({MaxOutputTokensPerStep, MaxTokens - total - estimated})
       IN \/ \* skipped, or the provider failed
             /\ Persist(turn.tokens, None) /\ End
             /\ UNCHANGED <<total, reported, rejectedCall, generated, shown>>
          \/ \* answered, billed, and refused by the adapter
             /\ maxOutputTokens >= MinimumUsefulOutputTokens
             /\ generated' = FALSE /\ rejectedCall' \in Costs(estimated, maxOutputTokens)
             /\ Persist(turn.tokens, None) /\ End
             /\ UNCHANGED <<total, reported, shown>>
          \/ /\ maxOutputTokens >= MinimumUsefulOutputTokens
             /\ \E over \in {0, Overrun}, out \in {1, maxOutputTokens}, action \in Repairs :
                   LET used == estimated + out + over
                       repaired == action # None /\ action.type = "finish"
                   IN /\ total' = total + used /\ Report(used, FALSE)
                      /\ Persist(repairUsage(repaired, used), None) /\ End
                      /\ UNCHANGED rejectedCall
                      /\ shown' = IF repaired THEN action.prompt ELSE shown
    /\ UNCHANGED <<prompt, hasTriedSectionCrop, jitter, policy, resumes, dropped, rejectedGenerations>>

----------------------------------------------------------------------------
(* The action *)

Finish ==
    /\ pc = "act" /\ turn.action.type = "finish"
    /\ shown' = turn.action.prompt
    /\ Persist(turn.tokens, None) /\ End
    /\ UNCHANGED <<locals, policy, resumes, reported, dropped, rejected, generated>>

\* A handoff is terminal.
Handoff ==
    /\ pc = "act" /\ turn.action.type = "human_handoff"
    /\ Persist(turn.tokens, None) /\ End
    /\ UNCHANGED <<locals, policy, resumes, ghosts>>

Continue == pc' = (IF Len(steps) + 1 >= MaxReActIterations THEN "ended" ELSE "loop") /\ turn' = NoTurn /\ cap' = 0

\* A generation sub-call.  When the call throws, its usage is added nowhere,
\* although the provider may have billed it, and the loop goes on.
Generate ==
    /\ pc = "act" /\ turn.action.type = "llm_generate"
    /\ \/ /\ total' = total + GenerationTokens
          /\ Report(GenerationTokens, TRUE)
          /\ Persist(turn.tokens + GenerationTokens, None)
          /\ UNCHANGED rejectedGenerations
       \/ /\ rejectedGenerations' \in {rejectedGenerations, rejectedGenerations + GenerationTokens}
          /\ Persist(turn.tokens, None)
          /\ UNCHANGED <<total, reported, generated>>
    /\ Continue
    /\ UNCHANGED <<prompt, hasTriedSectionCrop, jitter, policy, resumes, dropped, rejectedCall, shown>>

ToolCalls == Cardinality({k \in DOMAIN steps : steps[k].tool # None}) + 1

JITTER_THRESHOLD == 3

\* The third call in a row of one tool with one input, or one call too many, ends the loop;
\* so does a tool that fails.  A tool that needs a human pauses it.
ToolCall ==
    /\ pc = "act" /\ turn.action.type = "tool_call"
    /\ LET t == turn.action.tool
           count == IF jitter.tool = t THEN jitter.count + 1 ELSE 1
       IN /\ jitter' = [tool |-> t, count |-> count]
          /\ Persist(turn.tokens, t)
          /\ \/ count >= JITTER_THRESHOLD /\ End
             \/ count < JITTER_THRESHOLD /\ ToolCalls > MaxToolCalls /\ End
             \/ /\ count < JITTER_THRESHOLD /\ ToolCalls <= MaxToolCalls
                /\ \/ End
                   \/ Continue
                   \/ pc' = "paused" /\ turn' = NoTurn /\ cap' = 0
    /\ UNCHANGED <<total, prompt, hasTriedSectionCrop, policy, resumes, ghosts>>

\* Mutant of Resume: the budget starts afresh.
ResumeAfresh ==
    /\ pc = "paused" /\ resumes < MaxResumes
    /\ resumes' = resumes + 1
    /\ \E t \in Tools : Persist(0, t)
    /\ total' = 0
    /\ prompt' = "full" /\ hasTriedSectionCrop' = FALSE /\ jitter' = [tool |-> None, count |-> 0]
    /\ pc' = IF Len(steps) + 1 >= MaxReActIterations THEN "ended" ELSE "loop"
    /\ UNCHANGED <<cap, turn, policy, ghosts>>

\* The approved call is a step of its own, and the loop's variables start
\* again: the budget from the recorded steps, everything else from nothing.
Resume ==
    /\ pc = "paused" /\ resumes < MaxResumes
    /\ resumes' = resumes + 1
    /\ \E t \in Tools : Persist(0, t)
    /\ total' = tokensOf(steps)
    /\ prompt' = "full" /\ hasTriedSectionCrop' = FALSE /\ jitter' = [tool |-> None, count |-> 0]
    /\ pc' = IF Len(steps) + 1 >= MaxReActIterations THEN "ended" ELSE "loop"
    /\ UNCHANGED <<cap, turn, policy, ghosts>>

Init ==
    /\ pc = "loop" /\ total = 0 /\ prompt = "full" /\ hasTriedSectionCrop = FALSE
    /\ jitter = [tool |-> None, count |-> 0]
    /\ rejectedCall = 0 /\ rejectedGenerations = 0
    /\ cap = 0 /\ turn = NoTurn /\ steps = <<>> /\ policy \in SystemBudgets /\ resumes = 0
    /\ reported = 0 /\ dropped = 0 /\ generated = FALSE /\ shown = "nothing"

Next ==
    \/ StopBeforeTurn \/ Preflight \/ ChatFails \/ Chat \/ RepairStructuredResponse
    \/ Finish \/ Handoff \/ Generate \/ ToolCall \/ Resume

Spec == Init /\ [][Next]_vars

----------------------------------------------------------------------------
(* Properties *)

\* Over all its turns, the repair and the loops after approvals, the calls of
\* an execution cost no more than its budget and one provider's overrun - or
\* one generation sub-call, which nothing caps - the last call's answer being
\* refused included.  Generation sub-calls whose answer is refused are counted
\* by nothing but the iterations: each of these may cost one more.
SpendBounded ==
    /\ reported + rejectedCall <= MaxTokens + (IF generated THEN GenerationTokens ELSE Overrun)
    /\ rejectedGenerations <= MaxReActIterations * GenerationTokens

\* Between turns the recorded steps account for everything that was reported,
\* so a resumed loop starts from the same sum as one that was never paused;
\* only an answer dropped for a shorter prompt goes unrecorded, and then the
\* loop has no budget for another.  What the adapter refused is never recorded;
\* unless it was a generation sub-call, the loop ends with it.
UsageRecorded ==
    pc \in {"loop", "paused", "ended"} =>
        /\ tokensOf(steps) + dropped = reported
        /\ dropped > 0 /\ pc = "loop" => total > MaxTokens
        /\ pc = "loop" => total = reported
        /\ rejectedCall > 0 => pc = "ended"

\* The finish step shows the user text that the model gave as its answer,
\* never an envelope of the protocol and never nothing, from the answer or its repair.
OnlyAnswersShown == shown \in {"nothing", "text"}

=============================================================================
