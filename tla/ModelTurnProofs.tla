--------------------------- MODULE ModelTurnProofs ---------------------------
(***************************************************************************)
(* TLAPS proofs about ModelTurn: for every budget, cap, prompt and number  *)
(* of turns and approvals, the bill is bounded, the persisted steps        *)
(* account for it, and only an answer is shown as one.                     *)
(***************************************************************************)
EXTENDS ModelTurn, WellFoundedInduction, TLAPS

----------------------------------------------------------------------------
(* Adding up the tokens of the steps *)

\* The tools that an answer may name, or a human approve.
Named == {action.tool : action \in Answers} \cup Tools \cup {None}

Row == [tokens : Nat, tool : Named]

\* f holds the running sums of the first m rows of list.
Sums(f, list, m) == f = [n \in 0..m |-> IF n = 0 THEN 0 ELSE f[n - 1] + list[n].tokens]

\* A set of numbers that is not empty has a least one: induction, for a set.
LEMMA Least ==
    ASSUME NEW T \in SUBSET Nat, T # {}
    PROVE  \E m \in T : \A k \in T : ~(k < m)
<1>1. PICK m \in T : \A k \in T : ~(<<k, m>> \in OpToRel(<, Nat))
  BY NatLessThanWellFounded, WFMin
<1>2. \A k \in T : k < m => <<k, m>> \in OpToRel(<, Nat)
  BY DEF OpToRel
<1>3. QED  BY <1>1, <1>2

\* One more row continues the running sums.
LEMMA SumsExtend ==
    ASSUME NEW list \in Seq(Row), NEW m \in Nat, NEW g, Sums(g, list, m),
           NEW longer \in Seq(Row), m + 1 <= Len(longer),
           \A n \in 1..m : longer[n] = list[n],
           NEW f, f = [n \in 0..(m + 1) |-> IF n = m + 1 THEN g[m] + longer[m + 1].tokens ELSE g[n]]
    PROVE  Sums(f, longer, m + 1)
<1>1. \A n \in 0..m : g[n] = IF n = 0 THEN 0 ELSE g[n - 1] + list[n].tokens
  BY DEF Sums
<1>2. ASSUME NEW n \in 0..(m + 1)
      PROVE  f[n] = IF n = 0 THEN 0 ELSE f[n - 1] + longer[n].tokens
  <2>1. CASE n = 0
    <3>1. 0 \in 0..m /\ 0 \in 0..(m + 1) /\ 0 # m + 1
      OBVIOUS
    <3>2. g[0] = 0 /\ f[0] = g[0]
      BY <1>1, <3>1
    <3>3. QED  BY <2>1, <3>2
  <2>2. CASE n \in 1..m
    <3>1. f[n] = g[n] /\ f[n - 1] = g[n - 1] /\ n \in 0..m /\ n # 0
      BY <2>2
    <3>2. g[n] = g[n - 1] + list[n].tokens
      BY <1>1, <3>1
    <3>3. QED  BY <2>2, <3>1, <3>2
  <2>3. CASE n = m + 1
    <3>1. f[n - 1] = g[m] /\ f[n] = g[m] + longer[m + 1].tokens /\ n # 0
      BY <2>3
    <3>2. QED  BY <2>3, <3>1
  <2>4. QED  BY <2>1, <2>2, <2>3
<1>3. f = [n \in 0..(m + 1) |-> f[n]]
  OBVIOUS
<1>4. QED  BY <1>2, <1>3, Zenon DEF Sums

\* Running sums exist ...
LEMMA SumsExist ==
    ASSUME NEW list \in Seq(Row)
    PROVE  \E f : Sums(f, list, Len(list))
<1> DEFINE Missing == {m \in 0..Len(list) : ~\E f : Sums(f, list, m)}
<1>1. Len(list) \in Nat
  OBVIOUS
<1>2. SUFFICES ASSUME Missing # {} PROVE FALSE
  BY <1>1
<1>3. PICK m \in Missing : \A k \in Missing : ~(k < m)
  <2>1. Missing \in SUBSET Nat
    BY <1>1
  <2> HIDE DEF Missing
  <2>2. QED  BY <1>2, <2>1, Least
<1>4. m \in 0..Len(list) /\ ~\E f : Sums(f, list, m)
  BY <1>3
<1>5. CASE m = 0
  <2>1. PICK f : f = [n \in 0..0 |-> 0]
    OBVIOUS
  <2>2. f = [n \in 0..0 |-> IF n = 0 THEN 0 ELSE f[n - 1] + list[n].tokens]
    BY <2>1
  <2>3. QED  BY <1>4, <1>5, <2>2 DEF Sums
<1>6. CASE m # 0
  <2>1. m - 1 \in 0..Len(list) /\ m - 1 < m /\ m - 1 \in Nat
    BY <1>1, <1>4, <1>6
  <2>2. m - 1 \notin Missing
    BY <1>3, <2>1
  <2>3. PICK g : Sums(g, list, m - 1)
    BY <2>1, <2>2
  <2>4. PICK k \in Nat : k = m - 1
    BY <2>1
  <2>5. PICK f : f = [n \in 0..(k + 1) |-> IF n = k + 1 THEN g[k] + list[k + 1].tokens ELSE g[n]]
    OBVIOUS
  <2>6. k + 1 <= Len(list) /\ k + 1 = m /\ Sums(g, list, k)
    BY <1>1, <1>4, <2>3, <2>4
  <2>7. Sums(f, list, k + 1)
    BY <2>5, <2>6, SumsExtend
  <2>8. QED  BY <1>4, <2>6, <2>7
<1>7. QED  BY <1>5, <1>6

\* ... and only one way.
LEMMA SumsUnique ==
    ASSUME NEW list, NEW m \in Nat, NEW f, NEW g, Sums(f, list, m), Sums(g, list, m)
    PROVE  \A n \in 0..m : f[n] = g[n]
<1> DEFINE Apart == {n \in 0..m : f[n] # g[n]}
<1>1. SUFFICES ASSUME Apart # {} PROVE FALSE
  OBVIOUS
<1>2. PICK n \in Apart : \A k \in Apart : ~(k < n)
  <2>1. Apart \in SUBSET Nat
    OBVIOUS
  <2> HIDE DEF Apart
  <2>2. QED  BY <1>1, <2>1, Least
<1>3. n \in 0..m /\ f[n] # g[n]
  BY <1>2
<1>4. /\ f[n] = IF n = 0 THEN 0 ELSE f[n - 1] + list[n].tokens
      /\ g[n] = IF n = 0 THEN 0 ELSE g[n - 1] + list[n].tokens
  BY <1>3 DEF Sums
<1>5. n # 0
  BY <1>3, <1>4
<1>6. n - 1 \in 0..m /\ n - 1 < n
  BY <1>3, <1>5
<1>7. f[n - 1] = g[n - 1]
  BY <1>2, <1>6
<1>8. QED  BY <1>3, <1>4, <1>5, <1>7

\* tokensOf is the last running sum.
LEMMA TokensOfIsSum ==
    ASSUME NEW list \in Seq(Row)
    PROVE  \E f : Sums(f, list, Len(list)) /\ tokensOf(list) = f[Len(list)]
<1> DEFINE f == CHOOSE f : f = [n \in 0..Len(list) |->
                                    IF n = 0 THEN 0 ELSE f[n - 1] + list[n].tokens]
<1>1. f = [n \in 0..Len(list) |-> IF n = 0 THEN 0 ELSE f[n - 1] + list[n].tokens]
  <2>1. \E h : h = [n \in 0..Len(list) |-> IF n = 0 THEN 0 ELSE h[n - 1] + list[n].tokens]
    BY SumsExist DEF Sums
  <2>2. QED  BY <2>1, Zenon
<1>2. tokensOf(list) = f[Len(list)]
  BY Zenon DEF tokensOf
<1>3. QED  BY <1>1, <1>2 DEF Sums

\* No steps have used nothing, and a step adds what it used.
LEMMA TokensOfNone == tokensOf(<<>>) = 0
<1>1. <<>> \in Seq(Row) /\ Len(<<>>) = 0
  OBVIOUS
<1>2. PICK f : Sums(f, <<>>, 0) /\ tokensOf(<<>>) = f[0]
  BY <1>1, TokensOfIsSum
<1>3. QED  BY <1>2 DEF Sums

LEMMA TokensOfAppend ==
    ASSUME NEW list \in Seq(Row), NEW row \in Row
    PROVE  tokensOf(Append(list, row)) = tokensOf(list) + row.tokens
<1>1. PICK longer : longer = Append(list, row)
  OBVIOUS
<1>2. PICK m : m = Len(list)
  OBVIOUS
<1>3. /\ longer \in Seq(Row) /\ m \in Nat /\ Len(longer) = m + 1
      /\ longer[m + 1] = row /\ \A n \in 1..m : longer[n] = list[n]
  BY <1>1, <1>2
<1>4. PICK g : Sums(g, list, m) /\ tokensOf(list) = g[m]
  BY <1>2, TokensOfIsSum
<1>5. PICK h : Sums(h, longer, m + 1) /\ tokensOf(longer) = h[m + 1]
  BY <1>3, TokensOfIsSum
<1>6. PICK f : f = [n \in 0..(m + 1) |-> IF n = m + 1 THEN g[m] + longer[m + 1].tokens ELSE g[n]]
  OBVIOUS
<1>7. Sums(f, longer, m + 1)
  BY <1>3, <1>4, <1>6, SumsExtend
<1>8. h[m + 1] = f[m + 1]
  <2>1. PICK k \in Nat : k = m + 1
    BY <1>3
  <2>2. Sums(h, longer, k) /\ Sums(f, longer, k) /\ k \in 0..k
    BY <1>5, <1>7, <2>1
  <2>3. QED  BY <2>1, <2>2, SumsUnique
<1>9. f[m + 1] = g[m] + row.tokens
  BY <1>3, <1>6
<1>10. QED  BY <1>1, <1>4, <1>5, <1>8, <1>9

----------------------------------------------------------------------------
(* The invariant *)

Labels == {"loop", "chat", "repair", "act", "paused", "ended"}

TypeOK ==
    /\ pc \in Labels
    /\ total \in Nat /\ reported \in Nat /\ dropped \in Nat
    /\ generated \in BOOLEAN /\ hasTriedSectionCrop \in BOOLEAN
    /\ prompt \in {"full", "short"}
    /\ cap \in Nat
    /\ steps \in Seq(Row) /\ tokensOf(steps) \in Nat
    /\ turn.tokens \in Nat /\ turn.content \in Nat

\* A call under way, its estimate and its cap fit into what is left.
CallFits ==
    pc = "chat" => cap >= 1 /\ total + estimateChatInputTokens(prompt) + cap <= MaxTokens

\* The loop knows what was reported; what the steps do not tell is the turn's, or
\* was dropped, and a loop that dropped an answer is out of budget.
Accounted ==
    /\ total = reported
    /\ tokensOf(steps) + dropped + turn.tokens = reported
    /\ pc \notin {"act", "repair"} => turn.tokens = 0
    /\ pc \in {"act", "repair"} => total <= MaxTokens
    /\ dropped > 0 => pc \in {"loop", "ended"} /\ total > MaxTokens

\* An answer that is acted on has been validated.
Understood ==
    pc = "act" =>
        /\ turn.action \in Answers
        /\ turn.action.type = "finish" => turn.action.prompt = "text"

\* What the adapter reported.
ReportBounded == reported <= MaxTokens + (IF generated THEN GenerationTokens ELSE Overrun)

TurnInvariant == TypeOK /\ CallFits /\ Accounted /\ Understood /\ ReportBounded /\ OnlyAnswersShown

----------------------------------------------------------------------------
(* Facts about the operators *)

\* The caps and sizes are numbers.
LEMMA Numbers ==
    /\ MaxTokens \in Nat /\ MaxStepTokens \in Nat /\ MaxOutputTokensPerStep \in Nat
    /\ MinimumUsefulOutputTokens \in Nat /\ Overrun \in Nat /\ GenerationTokens \in Nat
    /\ MaxOutputTokensPerStep >= 1 /\ MinimumUsefulOutputTokens >= 1
    /\ \A part \in Parts : Sizes[part] \in Nat
  BY SizesAssumption

\* Whatever is dropped of it, a system message has a size.
LEMMA SystemSize ==
    ASSUME NEW fixed \in Nat, NEW budget
    PROVE  enforceSystemTokenBudget(fixed, budget) \in Nat
<1> DEFINE Kept(j, k) == IF k < j THEN Sizes[trimmable[j]] ELSE 0
           Without(k) == fixed + Kept(1, k) + Kept(2, k) + Kept(3, k)
           Fits(k) == budget = None \/ Without(k) <= budget \/ k = Len(trimmable)
           drops == CHOOSE k \in 0..Len(trimmable) : Fits(k) /\ \A j \in 0..(k - 1) : ~Fits(j)
<1>1. trimmable[1] = "exemplars" /\ trimmable[2] = "knowledge" /\ trimmable[3] = "memory"
  BY DEF trimmable
<1>2. \A k : Kept(1, k) \in Nat /\ Kept(2, k) \in Nat /\ Kept(3, k) \in Nat
  BY <1>1, Numbers DEF Parts
<1> HIDE DEF Kept
<1>3. \A k : Without(k) \in Nat
  BY <1>2
<1> HIDE DEF Without, Fits
<1>4. enforceSystemTokenBudget(fixed, budget) = Without(drops)
  BY DEF enforceSystemTokenBudget, Without, Kept, Fits
<1>5. QED  BY <1>3, <1>4

\* A prompt's estimate is a size, too.
LEMMA EstimateIsNat ==
    ASSUME TypeOK, NEW form
    PROVE  estimateChatInputTokens(form) \in Nat
<1>1. Sizes.rules \in Nat /\ Sizes.high \in Nat /\ Sizes.normal \in Nat /\ Sizes.step \in Nat
      /\ Sizes.request \in Nat
  BY Numbers DEF Parts
<1>2. Sizes.rules + Sizes.high + (IF form = "full" THEN Sizes.normal ELSE 0) \in Nat
  BY <1>1
<1>3. systemContent(form) \in Nat
  BY <1>2, SystemSize DEF systemContent
<1>4. Len(steps) \in Nat
  BY DEF TypeOK
<1>5. PICK replayed \in Nat : replayed = Len(steps) * Sizes.step
  BY <1>1, <1>4
<1>6. conversation \in Nat
  <2>1. replayed + Sizes.request \in Nat
    BY <1>1
  <2>2. conversation = replayed + Sizes.request
    BY <1>5, Zenon DEF conversation
  <2>3. QED  BY <2>1, <2>2
<1>7. QED  BY <1>3, <1>6 DEF estimateChatInputTokens

\* The smaller of two numbers.
LEMMA MinOfTwo ==
    ASSUME NEW a \in Int, NEW b \in Int
    PROVE  Min({a, b}) \in {a, b} /\ Min({a, b}) <= a /\ Min({a, b}) <= b
<1>1. \E x \in {a, b} : \A y \in {a, b} : x <= y
  OBVIOUS
<1>2. PICK x : x = Min({a, b})
  OBVIOUS
<1>3. x \in {a, b} /\ \A y \in {a, b} : x <= y
  BY <1>1, <1>2 DEF Min
<1>4. QED  BY <1>2, <1>3

\* An answer that is understood as a finish holds text.
LEMMA FinishHoldsText ==
    ASSUME NEW text, parseThoughtAndAction(text) # None,
           parseThoughtAndAction(text).type = "finish"
    PROVE  parseThoughtAndAction(text).prompt = "text"
<1>1. PICK action : action = parseThoughtAndAction(text)
  OBVIOUS
<1>2. validateStructuredAction(action)
  BY <1>1 DEF parseThoughtAndAction
<1>3. QED  BY <1>1, <1>2 DEF validateStructuredAction, materializeFinalAnswer

LEMMA AnswersHoldText ==
    /\ \A action \in Answers : action # None /\ action.type = "finish" => action.prompt = "text"
    /\ \A action \in Repairs : action # None /\ action.type = "finish" => action.prompt = "text"
<1>1. ASSUME NEW action \in Repairs, action # None, action.type = "finish"
      PROVE  action.prompt = "text"
  <2>1. PICK text \in Texts : action = parseThoughtAndAction(text)
    BY DEF Repairs
  <2>2. QED  BY <1>1, <2>1, FinishHoldsText
<1>2. ASSUME NEW action \in Answers, action # None, action.type = "finish"
      PROVE  action.prompt = "text"
  <2>1. PICK calls \in {<<>>} \cup {<<t>> : t \in Tools} :
            \E text \in Texts : action = extractNativeAction(calls, text)
    BY DEF Answers
  <2>text. PICK text \in Texts : action = extractNativeAction(calls, text)
    BY <2>1
  <2>2. CASE calls # <<>>
    BY <1>2, <2>text, <2>2 DEF extractNativeAction
  <2>3. CASE calls = <<>>
    BY <1>2, <2>text, <2>3, FinishHoldsText DEF extractNativeAction
  <2>4. QED  BY <2>2, <2>3
<1>3. QED  BY <1>1, <1>2

\* A step is recorded with what it used.
LEMMA PersistKeeps ==
    ASSUME TypeOK, NEW tokens \in Nat, NEW tool \in Named, Persist(tokens, tool)
    PROVE  steps' \in Seq(Row) /\ tokensOf(steps)' = tokensOf(steps) + tokens
<1>1. PICK row : row = [tokens |-> tokens, tool |-> tool]
  OBVIOUS
<1>2. row \in Row /\ row.tokens = tokens
  BY <1>1 DEF Row
<1>3. steps \in Seq(Row) /\ steps' = Append(steps, row)
  BY <1>1 DEF TypeOK, Persist
<1>4. steps' \in Seq(Row)
  BY <1>2, <1>3
<1>5. tokensOf(Append(steps, row)) = tokensOf(steps) + row.tokens
  BY <1>2, <1>3, TokensOfAppend
<1>6. tokensOf(steps)' = tokensOf(Append(steps, row))
  BY <1>3
<1>7. QED  BY <1>2, <1>4, <1>5, <1>6

----------------------------------------------------------------------------
(* The steps *)

\* A turn is over, or the approved call is recorded: a step is persisted that
\* tells what was reported and not yet told.
LEMMA RestKeeps ==
    ASSUME TurnInvariant, NEW tokens \in Nat, NEW tool \in Named,
           Persist(tokens, tool),
           pc' \in {"loop", "paused", "ended"}, turn'.tokens = 0, turn'.content \in Nat,
           cap' \in Nat, total' \in Nat, reported' = total',
           reported' + turn.tokens = reported + tokens, dropped' = dropped,
           dropped > 0 => pc' \in {"loop", "ended"} /\ total' > MaxTokens,
           prompt' \in {"full", "short"}, hasTriedSectionCrop' \in BOOLEAN,
           generated' \in BOOLEAN, ReportBounded', OnlyAnswersShown'
    PROVE  TurnInvariant'
<1>1. TypeOK /\ Accounted
  BY DEF TurnInvariant
<1>2. steps' \in Seq(Row) /\ tokensOf(steps)' = tokensOf(steps) + tokens
  BY <1>1, PersistKeeps
<1>3. tokensOf(steps) \in Nat /\ total \in Nat /\ reported \in Nat /\ dropped \in Nat
      /\ turn.tokens \in Nat
  BY <1>1 DEF TypeOK
<1>4. tokensOf(steps)' \in Nat
  BY <1>2, <1>3
<1>5. TypeOK'
  <2>1. pc' \in Labels
    BY DEF Labels
  <2>2. reported' \in Nat /\ dropped' \in Nat /\ turn'.tokens \in Nat
    BY <1>3
  <2>3. QED  BY <1>2, <1>4, <2>1, <2>2, Zenon DEF TypeOK
<1>6. tokensOf(steps)' + dropped' + turn'.tokens = reported'
  <2>1. tokensOf(steps) + dropped + turn.tokens = reported
    BY <1>1 DEF Accounted
  <2>2. PICK told \in Nat : told = tokensOf(steps)
    BY <1>3
  <2>3. PICK telling \in Nat : telling = tokensOf(steps)'
    BY <1>4
  <2>4. told + dropped + turn.tokens = reported /\ telling = told + tokens
    BY <1>2, <2>1, <2>2, <2>3, Zenon
  <2>5. telling + dropped' + turn'.tokens = reported'
    BY <1>3, <2>2, <2>3, <2>4
  <2>6. QED  BY <2>3, <2>5, Zenon
<1>7. Accounted'
  BY <1>6 DEF Accounted
<1>8. CallFits' /\ Understood'
  BY DEF CallFits, Understood
<1>9. QED  BY <1>5, <1>7, <1>8 DEF TurnInvariant

\* The loop ends before or instead of an answer.
LEMMA UnreportedEnd ==
    ASSUME TurnInvariant, pc \in {"loop", "chat"}, Persist(0, None), End,
           UNCHANGED <<total, reported, dropped, shown>>, generated' \in BOOLEAN, ReportBounded',
           prompt' \in {"full", "short"}, hasTriedSectionCrop' \in BOOLEAN
    PROVE  TurnInvariant'
<1>1. pc' = "ended" /\ turn'.tokens = 0 /\ turn'.content = 0 /\ cap' = 0
  BY DEF End, NoTurn
<1>2. turn.tokens = 0 /\ total = reported /\ (dropped > 0 => total > MaxTokens)
      /\ total \in Nat
  BY DEF TurnInvariant, Accounted, TypeOK
<1>3. OnlyAnswersShown'
  BY DEF TurnInvariant, OnlyAnswersShown
<1>4. None \in Named
  BY DEF Named
<1>5. QED  BY <1>1, <1>2, <1>3, <1>4, RestKeeps

LEMMA StopBeforeTurnKeeps ==
    ASSUME TurnInvariant, StopBeforeTurn
    PROVE  TurnInvariant'
<1>1. ReportBounded'
  BY DEF TurnInvariant, ReportBounded, StopBeforeTurn, ghosts
<1>2. QED  BY <1>1, UnreportedEnd DEF StopBeforeTurn, locals, ghosts, TurnInvariant, TypeOK

\* A call was let through, so the reports are within the budget.
LEMMA ChatFailsKeeps ==
    ASSUME TurnInvariant, ChatFails
    PROVE  TurnInvariant'
<1>1. TypeOK /\ Accounted /\ CallFits /\ pc = "chat"
  BY DEF TurnInvariant, ChatFails
<1>2. PICK estimate \in Nat : estimate = estimateChatInputTokens(prompt)
  BY <1>1, EstimateIsNat
<1>3. reported <= MaxTokens /\ generated' \in BOOLEAN
  <2>1. total = reported /\ total \in Nat /\ cap \in Nat /\ MaxTokens \in Nat
        /\ total + estimateChatInputTokens(prompt) + cap <= MaxTokens
    BY <1>1, Numbers DEF TypeOK, CallFits, Accounted
  <2>2. total + estimate + cap <= MaxTokens
    BY <1>2, <2>1, Zenon
  <2>3. generated' \in BOOLEAN
    BY <1>1 DEF TypeOK, ChatFails
  <2>4. QED  BY <2>1, <2>2, <2>3
<1>4. ReportBounded'
  BY <1>1, <1>3, Numbers DEF ReportBounded, ChatFails, TypeOK
<1>5. QED  BY <1>1, <1>3, <1>4, UnreportedEnd DEF ChatFails, locals, TypeOK

\* The call that Preflight lets through fits into what is left.
LEMMA PreflightKeeps ==
    ASSUME TurnInvariant, Preflight
    PROVE  TurnInvariant'
<1>1. TypeOK /\ Accounted /\ pc = "loop"
  BY DEF TurnInvariant, Preflight
<1>2. PICK remaining : remaining = MaxTokens - total
  OBVIOUS
<1>3. PICK form : /\ prompt' = form /\ form \in {"full", "short"}
                  /\ hasTriedSectionCrop' \in BOOLEAN
                  /\ \/ Persist(0, None) /\ End
                     \/ /\ ~(remaining <= estimateChatInputTokens(form)
                                          + MinimumUsefulOutputTokens)
                        /\ cap' = Min({MaxOutputTokensPerStep,
                                       remaining - estimateChatInputTokens(form)})
                        /\ pc' = "chat" /\ UNCHANGED <<steps, turn>>
  BY <1>1, <1>2 DEF Preflight, TypeOK, recomposeDroppingNormalSections
<1>4. UNCHANGED <<total, jitter, policy, resumes, ghosts>>
  BY DEF Preflight
<1>5. CASE Persist(0, None) /\ End
  <2>1. ReportBounded' /\ generated' \in BOOLEAN
    BY <1>1, <1>4 DEF TurnInvariant, ReportBounded, ghosts, TypeOK
  <2>2. QED  BY <1>1, <1>3, <1>4, <1>5, <2>1, UnreportedEnd DEF ghosts
<1>6. CASE /\ ~(remaining <= estimateChatInputTokens(form) + MinimumUsefulOutputTokens)
           /\ cap' = Min({MaxOutputTokensPerStep, remaining - estimateChatInputTokens(form)})
           /\ pc' = "chat" /\ UNCHANGED <<steps, turn>>
  <2>1. PICK estimate \in Nat : estimate = estimateChatInputTokens(form)
    BY <1>1, EstimateIsNat
  <2>2. estimateChatInputTokens(prompt)' = estimate
    BY <1>3, <1>4, <1>6, <2>1 DEF estimateChatInputTokens, systemContent, conversation
  <2>3. remaining \in Int /\ MaxTokens \in Nat /\ total \in Nat
    BY <1>1, <1>2, Numbers DEF TypeOK
  <2>a. PICK rest \in Int : rest = remaining - estimate
    BY <2>3
  <2>b. ~(remaining <= estimate + MinimumUsefulOutputTokens)
    BY <1>6, <2>1, Zenon
  <2>c. cap' = Min({MaxOutputTokensPerStep, rest})
    BY <1>6, <2>1, <2>a, Zenon
  <2>4. rest >= 1 /\ total <= MaxTokens /\ total + estimate + rest = MaxTokens
    BY <1>2, <2>1, <2>3, <2>a, <2>b, Numbers
  <2>5. cap' \in {MaxOutputTokensPerStep, rest} /\ cap' <= rest
    BY <2>a, <2>c, MinOfTwo, Numbers
  <2>6. cap' \in Nat /\ cap' >= 1 /\ total + estimate + cap' <= MaxTokens
    BY <2>1, <2>3, <2>4, <2>5, <2>a, Numbers
  <2>7. UNCHANGED <<reported, dropped, generated, shown>>
    BY <1>4 DEF ghosts
  <2>8. TypeOK'
    BY <1>1, <1>3, <1>4, <1>6, <2>6, <2>7 DEF TypeOK, Labels
  <2>9. CallFits'
    BY <1>4, <2>2, <2>6 DEF CallFits
  <2>10. dropped = 0
    BY <1>1, <2>3, <2>4 DEF Accounted, TypeOK
  <2>11. Accounted'
    BY <1>1, <1>4, <1>6, <2>7, <2>10 DEF Accounted
  <2>12. Understood' /\ ReportBounded' /\ OnlyAnswersShown'
    BY <1>6, <2>7 DEF TurnInvariant, Understood, ReportBounded, OnlyAnswersShown
  <2>13. QED  BY <2>8, <2>9, <2>11, <2>12 DEF TurnInvariant
<1>7. QED  BY <1>3, <1>5, <1>6

\* The answer: what it cost was under its cap, but for the provider's overrun.
LEMMA ChatKeeps ==
    ASSUME TurnInvariant, Chat
    PROVE  TurnInvariant'
<1>1. TypeOK /\ Accounted /\ CallFits /\ pc = "chat"
  BY DEF TurnInvariant, Chat
<1>2. PICK estimate \in Nat : estimate = estimateChatInputTokens(prompt)
  BY <1>1, EstimateIsNat
<1>3. PICK over \in {0, Overrun}, out \in {1, cap}, action \in Answers :
          Answered(estimateChatInputTokens(prompt) + out + over, out, action)
  BY DEF Chat
<1>4. UNCHANGED <<jitter, policy, resumes, shown>>
  BY DEF Chat
<1>5. PICK used : used = estimate + out + over
  OBVIOUS
<1>as. Answered(used, out, action)
  BY <1>2, <1>3, <1>5, Zenon
<1>6. /\ total \in Nat /\ cap \in Nat /\ cap >= 1 /\ total + estimate + cap <= MaxTokens
      /\ MaxTokens \in Nat /\ Overrun \in Nat /\ over \in Nat /\ over <= Overrun
      /\ out \in Nat /\ out <= cap
  BY <1>1, <1>2, Numbers DEF TypeOK, CallFits
<1>7. used \in Nat /\ total + used <= MaxTokens + Overrun
  BY <1>5, <1>6
<1>8. /\ turn.tokens = 0 /\ total = reported /\ dropped = 0
      /\ reported \in Nat
  BY <1>1 DEF Accounted, TypeOK
<1>9. total' = total + used /\ reported' = reported + used /\ generated' = FALSE
  BY <1>as DEF Answered, Report
<1>10. total' \in Nat /\ reported' = total' /\ reported' <= MaxTokens + Overrun
  BY <1>6, <1>7, <1>8, <1>9
<1>11. ReportBounded' /\ OnlyAnswersShown'
  BY <1>4, <1>9, <1>10 DEF TurnInvariant, ReportBounded, OnlyAnswersShown
<1>12. CASE Persist(used, None) /\ End /\ prompt' = prompt /\ dropped' = dropped
            /\ hasTriedSectionCrop' \in BOOLEAN
  <2>1. pc' = "ended" /\ turn'.tokens = 0 /\ turn'.content = 0 /\ cap' = 0
    BY <1>12 DEF End, NoTurn
  <2>2. prompt' \in {"full", "short"} /\ generated' \in BOOLEAN
    BY <1>1, <1>9, <1>12 DEF TypeOK
  <2>3. reported' + turn.tokens = reported + used
    BY <1>8, <1>9, <1>10
  <2>4. None \in Named /\ pc' \in {"loop", "paused", "ended"}
        /\ turn'.content \in Nat /\ cap' \in Nat /\ ~(dropped > 0)
    BY <1>8, <2>1 DEF Named
  <2>5. QED
    BY <1>7, <1>10, <1>11, <1>12, <2>1, <2>2, <2>3, <2>4, RestKeeps, Zenon
<1>13. CASE /\ total' > MaxTokens /\ prompt' \in {"full", "short"} /\ dropped' = dropped + used
            /\ hasTriedSectionCrop' = TRUE
            /\ pc' = "loop" /\ cap' = 0 /\ UNCHANGED <<steps, turn>>
  <2>a. pc' \in Labels /\ cap' \in Nat /\ reported' \in Nat /\ dropped' \in Nat
    BY <1>7, <1>8, <1>10, <1>13 DEF Labels
  <2>c. generated' \in BOOLEAN /\ hasTriedSectionCrop' \in BOOLEAN
    BY <1>9, <1>13
  <2>b. /\ steps' \in Seq(Row) /\ tokensOf(steps)' \in Nat
        /\ turn'.tokens \in Nat /\ turn'.content \in Nat
    BY <1>1, <1>13 DEF TypeOK
  <2>1. TypeOK'
    BY <1>10, <1>13, <2>a, <2>b, <2>c, Zenon DEF TypeOK
  <2>2. Accounted'
    BY <1>1, <1>7, <1>8, <1>9, <1>10, <1>13 DEF Accounted, TypeOK
  <2>3. CallFits' /\ Understood'
    BY <1>13 DEF CallFits, Understood
  <2>4. QED  BY <1>11, <2>1, <2>2, <2>3 DEF TurnInvariant
<1>14. CASE /\ total' <= MaxTokens
            /\ turn' = [tokens |-> used, content |-> out, action |-> action]
            /\ pc' = IF action = None THEN "repair" ELSE "act"
            /\ cap' = 0
            /\ UNCHANGED <<hasTriedSectionCrop, prompt, steps, dropped>>
  <2>1. turn'.tokens = used /\ turn'.content = out /\ turn'.action = action
    BY <1>14
  <2>2. pc' \in {"act", "repair"} /\ (pc' = "act" => action # None)
    BY <1>14
  <2>3. TypeOK'
    BY <1>1, <1>6, <1>7, <1>9, <1>10, <1>14, <2>1, <2>2 DEF TypeOK, Labels
  <2>4. Accounted'
    BY <1>1, <1>7, <1>8, <1>9, <1>10, <1>14, <2>1, <2>2 DEF Accounted, TypeOK
  <2>5. CallFits' /\ Understood'
    BY <2>1, <2>2, AnswersHoldText DEF CallFits, Understood
  <2>6. QED  BY <1>11, <2>3, <2>4, <2>5 DEF TurnInvariant
<1>15. QED
  <2>1. recomposeDroppingNormalSections(prompt) # None
            => recomposeDroppingNormalSections(prompt) \in {"full", "short"}
    BY DEF recomposeDroppingNormalSections
  <2>2. hasTriedSectionCrop \in BOOLEAN
    BY <1>1 DEF TypeOK
  <2>3. QED  BY <1>as, <1>12, <1>13, <1>14, <2>1, <2>2 DEF Answered

\* The repair fits into what is left, and what it cost is told with the turn.
LEMMA RepairStructuredResponseKeeps ==
    ASSUME TurnInvariant, RepairStructuredResponse
    PROVE  TurnInvariant'
<1>1. TypeOK /\ Accounted /\ ReportBounded /\ OnlyAnswersShown /\ pc = "repair"
  BY DEF TurnInvariant, RepairStructuredResponse
<1>2. /\ total \in Nat /\ reported \in Nat /\ turn.tokens \in Nat /\ turn.content \in Nat
      /\ MaxTokens \in Nat /\ Sizes.repair \in Nat
  BY <1>1, Numbers DEF TypeOK, Parts
<1>3. total = reported /\ total <= MaxTokens /\ dropped = 0
  BY <1>1 DEF Accounted, TypeOK
<1>4. UNCHANGED <<prompt, hasTriedSectionCrop, jitter, policy, resumes, dropped>>
  BY DEF RepairStructuredResponse
<1>5. End
  BY DEF RepairStructuredResponse
<1>6. pc' \in {"loop", "paused", "ended"} /\ turn'.tokens = 0 /\ turn'.content \in Nat
      /\ cap' \in Nat
  BY <1>5 DEF End, NoTurn
<1>7. prompt' \in {"full", "short"} /\ hasTriedSectionCrop' \in BOOLEAN
      /\ generated \in BOOLEAN /\ None \in Named
  BY <1>1, <1>4 DEF TypeOK, Named
<1>8. ~(dropped > 0)
  BY <1>3
<1>9. CASE Persist(turn.tokens, None) /\ UNCHANGED <<total, reported, shown>>
           /\ generated' \in BOOLEAN
  <2>1. ReportBounded' /\ OnlyAnswersShown'
    BY <1>1, <1>2, <1>3, <1>9, Numbers DEF ReportBounded, OnlyAnswersShown
  <2>2. reported' + turn.tokens = reported + turn.tokens /\ reported' = total' /\ total' \in Nat
        /\ generated' \in BOOLEAN /\ dropped' = dropped
    BY <1>2, <1>3, <1>4, <1>7, <1>9
  <2>3. QED  BY <1>2, <1>6, <1>7, <1>8, <1>9, <2>1, <2>2, RestKeeps
<1>10. PICK estimated \in Nat : estimated = Sizes.repair + turn.content
  BY <1>2
<1>11. PICK rest \in Int : rest = MaxTokens - total - estimated
  BY <1>2, <1>10
<1>12. PICK most : most = Min({MaxOutputTokensPerStep, rest})
  OBVIOUS
<1>13. CASE /\ most >= MinimumUsefulOutputTokens
            /\ \E over \in {0, Overrun}, out \in {1, most}, action \in Repairs :
                  /\ total' = total + (estimated + out + over)
                  /\ Report(estimated + out + over, FALSE)
                  /\ Persist(turn.tokens + (estimated + out + over), None)
                  /\ shown' = IF action # None /\ action.type = "finish"
                              THEN action.prompt ELSE shown
  <2>1. PICK over \in {0, Overrun}, out \in {1, most}, action \in Repairs :
            /\ total' = total + (estimated + out + over)
            /\ Report(estimated + out + over, FALSE)
            /\ Persist(turn.tokens + (estimated + out + over), None)
            /\ shown' = IF action # None /\ action.type = "finish" THEN action.prompt ELSE shown
    BY <1>13
  <2>2. PICK used : used = estimated + out + over
    OBVIOUS
  <2>3. most \in Int /\ most <= rest /\ most >= 1
    <3>1. most \in {MaxOutputTokensPerStep, rest} /\ most <= rest
      BY <1>11, <1>12, MinOfTwo, Numbers
    <3>2. most >= MinimumUsefulOutputTokens
      BY <1>13
    <3>3. QED  BY <1>11, <3>1, <3>2, Numbers
  <2>4. used \in Nat /\ total + used <= MaxTokens + Overrun
    BY <1>2, <1>10, <1>11, <2>1, <2>2, <2>3, Numbers
  <2>5. total' = total + used /\ Report(used, FALSE) /\ Persist(turn.tokens + used, None)
    BY <2>1, <2>2, Zenon
  <2>6. reported' = reported + used /\ generated' = FALSE
    BY <2>5 DEF Report
  <2>7. PICK tokens \in Nat : tokens = turn.tokens + used
    BY <1>2, <2>4
  <2>8. total' \in Nat /\ reported' = total' /\ reported' + turn.tokens = reported + tokens
        /\ dropped' = dropped /\ reported' <= MaxTokens + Overrun
    BY <1>2, <1>3, <1>4, <2>4, <2>5, <2>6, <2>7
  <2>9. ReportBounded'
    BY <2>6, <2>8 DEF ReportBounded
  <2>10. OnlyAnswersShown'
    BY <1>1, <2>1, AnswersHoldText DEF OnlyAnswersShown
  <2>11. generated' \in BOOLEAN /\ Persist(tokens, None)
    BY <2>5, <2>6, <2>7
  <2>12. QED
    BY <1>6, <1>7, <1>8, <2>7, <2>8, <2>9, <2>10, <2>11, RestKeeps, Zenon
<1>14. ASSUME Persist(turn.tokens, None), UNCHANGED <<total, reported, shown>>,
              generated' = generated \/ generated' = FALSE
       PROVE  TurnInvariant'
  BY <1>7, <1>9, <1>14
<1>15. QED
  BY <1>10, <1>11, <1>12, <1>13, <1>14, Zenon DEF RepairStructuredResponse, repairUsage

----------------------------------------------------------------------------
(* The action *)

\* A turn that acts and bills nothing more.
LEMMA ActedKeeps ==
    ASSUME TurnInvariant, pc = "act", NEW tool \in Named, Persist(turn.tokens, tool),
           pc' \in {"loop", "paused", "ended"}, turn' = NoTurn, cap' = 0,
           UNCHANGED <<total, prompt, hasTriedSectionCrop, reported, dropped, generated>>,
           OnlyAnswersShown'
    PROVE  TurnInvariant'
<1>1. TypeOK /\ Accounted /\ ReportBounded
  BY DEF TurnInvariant
<1>2. turn'.tokens = 0 /\ turn'.content \in Nat /\ cap' \in Nat
  BY DEF NoTurn
<1>3. ~(dropped > 0) /\ total = reported
  BY <1>1 DEF Accounted, TypeOK
<1>4. total \in Nat /\ turn.tokens \in Nat /\ reported \in Nat
  BY <1>1 DEF TypeOK
<1>5. prompt' \in {"full", "short"} /\ hasTriedSectionCrop' \in BOOLEAN
      /\ generated' \in BOOLEAN /\ dropped' = dropped
  BY <1>1 DEF TypeOK
<1>6. total' \in Nat /\ reported' = total' /\ reported' + turn.tokens = reported + turn.tokens
  BY <1>3, <1>4
<1>7. ReportBounded'
  BY <1>1 DEF ReportBounded
<1>8. QED  BY <1>2, <1>3, <1>4, <1>5, <1>6, <1>7, RestKeeps, Zenon

LEMMA FinishKeeps ==
    ASSUME TurnInvariant, Finish
    PROVE  TurnInvariant'
<1>1. OnlyAnswersShown'
  BY DEF TurnInvariant, Understood, Finish, OnlyAnswersShown
<1>2. None \in Named
  BY DEF Named
<1>3. QED  BY <1>1, <1>2, ActedKeeps DEF Finish, End, locals

LEMMA HandoffKeeps ==
    ASSUME TurnInvariant, Handoff
    PROVE  TurnInvariant'
<1>1. OnlyAnswersShown'
  BY DEF TurnInvariant, Handoff, OnlyAnswersShown, ghosts
<1>2. None \in Named
  BY DEF Named
<1>3. QED  BY <1>1, <1>2, ActedKeeps DEF Handoff, End, locals, ghosts

LEMMA ToolCallKeeps ==
    ASSUME TurnInvariant, ToolCall
    PROVE  TurnInvariant'
<1>1. OnlyAnswersShown'
  BY DEF TurnInvariant, ToolCall, OnlyAnswersShown, ghosts
<1>2. pc = "act" /\ turn.action \in Answers
  BY DEF TurnInvariant, Understood, ToolCall
<1>3. PICK tool : tool = turn.action.tool
  OBVIOUS
<1>4. tool \in Named
  BY <1>2, <1>3 DEF Named
<1>5. Persist(turn.tokens, tool)
  BY <1>3 DEF ToolCall
<1>6. pc' \in {"loop", "paused", "ended"} /\ turn' = NoTurn /\ cap' = 0
  BY DEF ToolCall, End, Continue
<1>7. UNCHANGED <<total, prompt, hasTriedSectionCrop, reported, dropped, generated>>
  BY DEF ToolCall, ghosts
<1>8. QED  BY <1>1, <1>2, <1>4, <1>5, <1>6, <1>7, ActedKeeps

\* A generation sub-call follows an answer that was within the budget.
LEMMA GenerateKeeps ==
    ASSUME TurnInvariant, Generate
    PROVE  TurnInvariant'
<1>1. TypeOK /\ Accounted /\ pc = "act"
  BY DEF TurnInvariant, Generate
<1>2. PICK used \in {0, GenerationTokens} :
          /\ total' = total + used /\ reported' = reported + used
          /\ Persist(turn.tokens + used, None)
          /\ generated' = TRUE \/ (used = 0 /\ generated' = generated)
  <2>1. total \in Nat /\ reported \in Nat /\ turn.tokens \in Nat
    BY <1>1 DEF TypeOK
  <2>2. total + 0 = total /\ reported + 0 = reported /\ turn.tokens + 0 = turn.tokens
    BY <2>1
  <2>3. CASE /\ total' = total + GenerationTokens /\ Report(GenerationTokens, TRUE)
             /\ Persist(turn.tokens + GenerationTokens, None)
    BY <2>3 DEF Report
  <2>4. CASE Persist(turn.tokens, None) /\ UNCHANGED <<total, reported, generated>>
    BY <2>2, <2>4
  <2>5. QED  BY <2>3, <2>4 DEF Generate
<1>3. UNCHANGED <<prompt, hasTriedSectionCrop, jitter, policy, resumes, dropped, shown>>
  BY DEF Generate
<1>4. used \in Nat /\ used <= GenerationTokens /\ GenerationTokens \in Nat /\ MaxTokens \in Nat
      /\ Overrun \in Nat
  BY <1>2, Numbers
<1>5. total \in Nat /\ reported \in Nat /\ turn.tokens \in Nat /\ generated \in BOOLEAN
  BY <1>1 DEF TypeOK
<1>6. total = reported /\ total <= MaxTokens /\ ~(dropped > 0)
  BY <1>1 DEF Accounted, TypeOK
<1>7. generated' \in BOOLEAN
  BY <1>2, <1>5
<1>8. PICK tokens \in Nat : tokens = turn.tokens + used
  BY <1>4, <1>5
<1>9. total' \in Nat /\ reported' = total' /\ reported' + turn.tokens = reported + tokens
  BY <1>2, <1>4, <1>5, <1>6, <1>8
<1>10. ReportBounded' /\ OnlyAnswersShown'
  BY <1>2, <1>3, <1>4, <1>5, <1>6 DEF TurnInvariant, ReportBounded, OnlyAnswersShown
<1>11. Persist(tokens, None) /\ None \in Named
  BY <1>2, <1>8 DEF Named
<1>12. pc' \in {"loop", "paused", "ended"} /\ turn'.tokens = 0 /\ turn'.content \in Nat
       /\ cap' \in Nat
  BY DEF Generate, Continue, NoTurn
<1>13. prompt' \in {"full", "short"} /\ hasTriedSectionCrop' \in BOOLEAN /\ dropped' = dropped
  BY <1>1, <1>3 DEF TypeOK
<1>14. QED
  BY <1>6, <1>7, <1>8, <1>9, <1>10, <1>11, <1>12, <1>13, RestKeeps, Zenon

\* A resumed loop adds the recorded steps up, and finds the whole bill.
LEMMA ResumeKeeps ==
    ASSUME TurnInvariant, Resume
    PROVE  TurnInvariant'
<1>1. TypeOK /\ Accounted /\ pc = "paused"
  BY DEF TurnInvariant, Resume
<1>2. PICK tool \in Tools : Persist(0, tool)
  BY DEF Resume
<1>3. UNCHANGED <<cap, turn, policy, reported, dropped, generated, shown>>
  BY DEF Resume, ghosts
<1>4. total \in Nat /\ reported \in Nat /\ dropped \in Nat /\ turn.tokens \in Nat
      /\ tokensOf(steps) \in Nat
  BY <1>1 DEF TypeOK
<1>5. turn.tokens = 0 /\ dropped = 0 /\ tokensOf(steps) + dropped + turn.tokens = reported
  BY <1>1, <1>4 DEF Accounted
<1>6. tokensOf(steps) = reported
  BY <1>4, <1>5
<1>7. total' = reported
  BY <1>6 DEF Resume
<1>8. ReportBounded' /\ OnlyAnswersShown'
  BY <1>3 DEF TurnInvariant, ReportBounded, OnlyAnswersShown
<1>9. pc' \in {"loop", "paused", "ended"} /\ prompt' \in {"full", "short"}
  BY DEF Resume
<1>10. hasTriedSectionCrop' \in BOOLEAN /\ generated' \in BOOLEAN
  BY <1>1, <1>3 DEF Resume, TypeOK
<1>11. turn'.tokens = 0 /\ turn'.content \in Nat /\ cap' \in Nat
  BY <1>1, <1>3, <1>5 DEF TypeOK
<1>12. total' \in Nat /\ reported' = total' /\ reported' + turn.tokens = reported + 0
       /\ dropped' = dropped /\ ~(dropped > 0)
  BY <1>3, <1>4, <1>5, <1>7
<1>13. tool \in Named /\ 0 \in Nat
  BY <1>2 DEF Named
<1>14. QED
  BY <1>2, <1>8, <1>9, <1>10, <1>11, <1>12, <1>13, RestKeeps, Zenon

----------------------------------------------------------------------------
(* The theorems *)

\* Every turn, repair, sub-call and resumption keeps the books.
THEOREM TurnInvariance == Spec => []TurnInvariant
<1>1. Init => TurnInvariant
  <2> SUFFICES ASSUME Init PROVE TurnInvariant
    OBVIOUS
  <2>1. steps = <<>> /\ steps \in Seq(Row) /\ turn.tokens = 0 /\ turn.content = 0
    BY DEF Init, NoTurn
  <2>2. tokensOf(steps) = 0
    BY <2>1, TokensOfNone
  <2>3. TypeOK
    <3>1. pc \in Labels /\ total \in Nat /\ reported \in Nat /\ dropped \in Nat
          /\ prompt \in {"full", "short"} /\ cap \in Nat
      BY DEF Init, Labels
    <3>2. generated \in BOOLEAN /\ hasTriedSectionCrop \in BOOLEAN
      BY DEF Init
    <3>3. tokensOf(steps) \in Nat /\ turn.tokens \in Nat /\ turn.content \in Nat
      BY <2>1, <2>2
    <3>4. QED  BY <2>1, <3>1, <3>2, <3>3, Zenon DEF TypeOK
  <2>4. Accounted
    BY <2>1, <2>2 DEF Init, Accounted
  <2>5. ReportBounded
    BY Numbers DEF Init, ReportBounded
  <2>6. CallFits /\ Understood /\ OnlyAnswersShown
    BY DEF Init, CallFits, Understood, OnlyAnswersShown
  <2>7. QED  BY <2>3, <2>4, <2>5, <2>6 DEF TurnInvariant
<1>2. TurnInvariant /\ [Next]_vars => TurnInvariant'
  <2> SUFFICES ASSUME TurnInvariant, [Next]_vars PROVE TurnInvariant'
    OBVIOUS
  <2>1. CASE UNCHANGED vars
    BY <2>1 DEF vars, locals, ghosts, TurnInvariant, TypeOK, CallFits, Accounted, Understood,
                ReportBounded, OnlyAnswersShown, estimateChatInputTokens, systemContent,
                conversation
  <2>2. CASE Next
    BY <2>2, StopBeforeTurnKeeps, PreflightKeeps, ChatFailsKeeps, ChatKeeps,
       RepairStructuredResponseKeeps, FinishKeeps, HandoffKeeps, GenerateKeeps, ToolCallKeeps,
       ResumeKeeps DEF Next
  <2>3. QED  BY <2>1, <2>2
<1>3. QED  BY <1>1, <1>2, PTL DEF Spec

\* What was billed and never reported.  A refused call ends the loop, so it
\* adds to what was within the budget; a refused generation sub-call costs a
\* step, and there are only so many.
Refusals ==
    /\ rejectedCall \in Nat /\ rejectedGenerations \in Nat
    /\ rejectedCall > 0 => pc = "ended"
    /\ reported + rejectedCall <= MaxTokens + (IF generated THEN GenerationTokens ELSE Overrun)
    /\ pc \in {"chat", "repair", "act"} => Len(steps) < MaxReActIterations
    /\ rejectedGenerations <= Len(steps) * GenerationTokens
    /\ rejectedGenerations <= MaxReActIterations * GenerationTokens

\* Multiples of a number.
LEMMA Multiples ==
    ASSUME NEW m \in Nat, NEW n \in Nat, NEW k \in Nat
    PROVE  /\ m * k \in Nat
           /\ (m + 1) * k = m * k + k
           /\ m <= n => m * k <= n * k
  OBVIOUS

\* One step more at most, and none once the loop has ended.
LEMMA StepsGrow ==
    ASSUME TurnInvariant, Next
    PROVE  /\ pc # "ended"
           /\ Len(steps) \in Nat /\ Len(steps') \in {Len(steps), Len(steps) + 1}
           /\ pc' \in {"chat", "repair", "act"} =>
                  /\ steps' = steps
                  /\ Len(steps) < MaxReActIterations \/ pc \in {"chat", "repair", "act"}
<1>1. steps \in Seq(Row)
  BY DEF TurnInvariant, TypeOK
<1>2. \A tokens, tool : Persist(tokens, tool) => Len(steps') = Len(steps) + 1
  BY <1>1 DEF Persist
<1>3. pc # "ended" /\ (steps' = steps \/ \E tokens, tool : Persist(tokens, tool))
  BY DEF Next, StopBeforeTurn, Preflight, ChatFails, Chat, Answered, RepairStructuredResponse,
         Finish, Handoff, Generate, ToolCall, Resume
<1>4. pc' \in {"chat", "repair", "act"} =>
          /\ steps' = steps
          /\ Len(steps) < MaxReActIterations \/ pc \in {"chat", "repair", "act"}
  BY DEF Next, StopBeforeTurn, Preflight, ChatFails, Chat, Answered, RepairStructuredResponse,
         Finish, Handoff, Generate, ToolCall, Resume, End, Continue
<1>5. QED  BY <1>1, <1>2, <1>3, <1>4

\* What a call may cost fits, but for the overrun, when the call does.
LEMMA CostsFit ==
    ASSUME NEW spent \in Nat, NEW estimated \in Nat, NEW limit \in Nat, limit >= 1,
           spent + estimated + limit <= MaxTokens, NEW cost \in Costs(estimated, limit)
    PROVE  cost \in Nat /\ spent + cost <= MaxTokens + Overrun
  BY Numbers DEF Costs

\* A refused answer, to the turn's call or to its repair, was within the budget.
LEMMA RefusedCallFits ==
    ASSUME TurnInvariant, ChatFails \/ RepairStructuredResponse, rejectedCall' # rejectedCall
    PROVE  /\ rejectedCall' \in Nat /\ reported' + rejectedCall' <= MaxTokens + Overrun
           /\ generated' = FALSE /\ pc' = "ended"
<1>1. TypeOK /\ Accounted /\ CallFits /\ reported \in Nat
  BY DEF TurnInvariant, TypeOK
<1>2. CASE ChatFails
  <2>1. pc = "chat" /\ rejectedCall' \in Costs(estimateChatInputTokens(prompt), cap)
        /\ generated' = FALSE /\ reported' = reported /\ pc' = "ended"
    BY <1>2 DEF ChatFails, End
  <2>2. PICK estimate \in Nat : estimate = estimateChatInputTokens(prompt)
    BY <1>1, EstimateIsNat
  <2>3. cap \in Nat /\ cap >= 1 /\ reported + estimate + cap <= MaxTokens
    BY <1>1, <2>1, <2>2 DEF CallFits, Accounted, TypeOK
  <2>4. rejectedCall' \in Costs(estimate, cap)
    BY <2>1, <2>2, Zenon
  <2>5. QED  BY <1>1, <2>1, <2>2, <2>3, <2>4, CostsFit
<1>3. CASE RepairStructuredResponse
  <2>1. pc = "repair" /\ total = reported /\ total <= MaxTokens
        /\ turn.content \in Nat /\ Sizes.repair \in Nat /\ MaxTokens \in Nat
    BY <1>1, <1>3, Numbers DEF Accounted, RepairStructuredResponse, TypeOK, Parts
  <2>2. PICK estimated \in Nat : estimated = Sizes.repair + turn.content
    BY <2>1
  <2>3. PICK rest \in Int : rest = MaxTokens - total - estimated
    BY <1>1, <2>1, <2>2
  <2>4. PICK most : most = Min({MaxOutputTokensPerStep, rest})
    OBVIOUS
  <2>5. /\ most >= MinimumUsefulOutputTokens /\ rejectedCall' \in Costs(estimated, most)
        /\ generated' = FALSE /\ reported' = reported
    <3>1. /\ Min({MaxOutputTokensPerStep, MaxTokens - total - (Sizes.repair + turn.content)})
                >= MinimumUsefulOutputTokens
          /\ rejectedCall' \in
                Costs(Sizes.repair + turn.content,
                      Min({MaxOutputTokensPerStep, MaxTokens - total - (Sizes.repair + turn.content)}))
          /\ generated' = FALSE /\ reported' = reported
      BY <1>3, Zenon DEF RepairStructuredResponse
    <3>2. QED  BY <2>2, <2>3, <2>4, <3>1, Zenon
  <2>6. most \in Nat /\ most >= 1 /\ reported + estimated + most <= MaxTokens
    <3>1. most \in {MaxOutputTokensPerStep, rest} /\ most <= rest
      BY <2>3, <2>4, MinOfTwo, Numbers
    <3>2. QED  BY <1>1, <2>1, <2>2, <2>3, <2>5, <3>1, Numbers
  <2>7. pc' = "ended"
    BY <1>3 DEF RepairStructuredResponse, End
  <2>8. QED  BY <1>1, <2>2, <2>5, <2>6, <2>7, CostsFit
<1>4. QED  BY <1>2, <1>3

LEMMA RefusalsKeep ==
    ASSUME TurnInvariant, Refusals, Next, TurnInvariant'
    PROVE  Refusals'
<1>1. /\ rejectedCall = 0 /\ rejectedGenerations \in Nat /\ pc # "ended"
      /\ Len(steps) \in Nat /\ Len(steps') \in {Len(steps), Len(steps) + 1}
      /\ MaxReActIterations \in Nat /\ GenerationTokens \in Nat
  BY StepsGrow, SizesAssumption DEF Refusals
<1>2. pc' \in {"chat", "repair", "act"} => Len(steps') < MaxReActIterations
  BY StepsGrow DEF Refusals
<1>3. CASE rejectedCall' = rejectedCall
  <2>1. reported' + rejectedCall' <= MaxTokens + (IF generated' THEN GenerationTokens ELSE Overrun)
    BY <1>1, <1>3 DEF TurnInvariant, ReportBounded, TypeOK
  <2>2. PICK before \in Nat : before = Len(steps) * GenerationTokens
    BY <1>1, Multiples
  <2>3. (Len(steps) + 1) * GenerationTokens = before + GenerationTokens
    BY <1>1, <2>2, Multiples
  <2>4. CASE rejectedGenerations' = rejectedGenerations
    <3>1. rejectedGenerations' <= Len(steps') * GenerationTokens
      BY <1>1, <2>2, <2>3, <2>4 DEF Refusals
    <3>2. QED  BY <1>1, <1>2, <1>3, <2>1, <2>4, <3>1 DEF Refusals
  <2>5. CASE /\ pc = "act" /\ Len(steps') = Len(steps) + 1
             /\ rejectedGenerations' = rejectedGenerations + GenerationTokens
    <3>1. rejectedGenerations' \in Nat /\ rejectedGenerations' <= Len(steps') * GenerationTokens
      BY <1>1, <2>2, <2>3, <2>5 DEF Refusals
    <3>2. Len(steps') <= MaxReActIterations
      BY <1>1, <2>5 DEF Refusals
    <3>3. Len(steps') * GenerationTokens <= MaxReActIterations * GenerationTokens
          /\ Len(steps') * GenerationTokens \in Nat /\ MaxReActIterations * GenerationTokens \in Nat
      BY <1>1, <3>2, Multiples
    <3>4. rejectedGenerations' <= MaxReActIterations * GenerationTokens
      BY <3>1, <3>3
    <3>5. QED  BY <1>1, <1>2, <1>3, <2>1, <3>1, <3>4 DEF Refusals
  <2>6. steps \in Seq(Row)
    BY DEF TurnInvariant, TypeOK
  <2>7. CASE Generate
    <3>1. pc = "act" /\ \E tokens : Persist(tokens, None)
      BY <2>7 DEF Generate
    <3>2. Len(steps') = Len(steps) + 1
      BY <2>6, <3>1 DEF Persist
    <3>3. rejectedGenerations' \in {rejectedGenerations, rejectedGenerations + GenerationTokens}
      BY <2>7 DEF Generate
    <3>4. QED  BY <2>4, <2>5, <3>1, <3>2, <3>3
  <2>8. CASE ~Generate
    <3>1. rejectedGenerations' = rejectedGenerations
      BY <2>8 DEF Next, StopBeforeTurn, Preflight, ChatFails, Chat, RepairStructuredResponse,
                  Finish, Handoff, ToolCall, Resume, ghosts, rejected
    <3>2. QED  BY <2>4, <3>1
  <2>9. QED  BY <2>7, <2>8
<1>4. CASE rejectedCall' # rejectedCall
  <2>1. ChatFails \/ RepairStructuredResponse
    BY <1>4 DEF Next, StopBeforeTurn, Preflight, Chat, Finish, Handoff, Generate, ToolCall, Resume,
                ghosts, rejected
  <2>2. /\ rejectedCall' \in Nat /\ reported' + rejectedCall' <= MaxTokens + Overrun
        /\ generated' = FALSE /\ pc' = "ended"
    BY <1>4, <2>1, RefusedCallFits
  <2>3. UNCHANGED rejectedGenerations
    BY <2>1 DEF ChatFails, RepairStructuredResponse
  <2>4. rejectedGenerations' <= Len(steps') * GenerationTokens
    <3>1. PICK before \in Nat : before = Len(steps) * GenerationTokens
      BY <1>1, Multiples
    <3>2. (Len(steps) + 1) * GenerationTokens = before + GenerationTokens
      BY <1>1, <3>1, Multiples
    <3>3. QED  BY <1>1, <2>3, <3>1, <3>2 DEF Refusals
  <2>5. QED  BY <1>1, <2>2, <2>3, <2>4 DEF Refusals
<1>5. QED  BY <1>3, <1>4

LEMMA RefusalsInvariant == Spec => []Refusals
<1>1. Init => Refusals
  <2> SUFFICES ASSUME Init PROVE Refusals
    OBVIOUS
  <2>1. MaxReActIterations \in Nat /\ GenerationTokens \in Nat
    BY SizesAssumption
  <2>2. 0 <= Len(steps) * GenerationTokens /\ 0 <= MaxReActIterations * GenerationTokens
    BY <2>1, Multiples DEF Init
  <2>3. QED  BY <2>2, Numbers DEF Init, Refusals
<1>2. TurnInvariant /\ Refusals /\ [Next]_vars /\ TurnInvariant' => Refusals'
  <2>1. ASSUME Refusals, UNCHANGED vars PROVE Refusals'
    BY <2>1 DEF Refusals, vars, ghosts, rejected
  <2>2. QED  BY <2>1, RefusalsKeep
<1>3. QED  BY <1>1, <1>2, TurnInvariance, PTL DEF Spec

\* Whatever a provider overruns, however often the loop crops, repairs, pauses
\* and resumes, and whichever answer the adapter refuses, the calls cost no
\* more than the budget and one call's overrun - or one generation sub-call,
\* which runReActLoop does not cap - beside generation sub-calls that were
\* refused, of which there are no more than iterations.
THEOREM SpendingBounded == Spec => []SpendBounded
<1>1. Refusals => SpendBounded
  BY DEF Refusals, SpendBounded
<1>2. QED  BY <1>1, RefusalsInvariant, PTL

\* The persisted steps and the dropped answers add up to what was reported
\* between any two turns, so that the sum a resumed runReActLoop starts from
\* is the one it had; what was refused is in no step.
THEOREM UsageAccounted == Spec => []UsageRecorded
<1>1. TurnInvariant /\ Refusals => UsageRecorded
  <2> SUFFICES ASSUME TurnInvariant, Refusals, pc \in {"loop", "paused", "ended"}
               PROVE  /\ tokensOf(steps) + dropped = reported
                      /\ dropped > 0 /\ pc = "loop" => total > MaxTokens
                      /\ pc = "loop" => total = reported
                      /\ rejectedCall > 0 => pc = "ended"
    BY DEF UsageRecorded
  <2>1. turn.tokens = 0 /\ tokensOf(steps) \in Nat /\ dropped \in Nat
    BY DEF TurnInvariant, Accounted, TypeOK
  <2>2. tokensOf(steps) + dropped + turn.tokens = reported
    BY DEF TurnInvariant, Accounted
  <2>3. tokensOf(steps) + dropped = reported
    BY <2>1, <2>2
  <2>4. QED  BY <2>3 DEF TurnInvariant, Accounted, Refusals
<1>2. QED  BY <1>1, TurnInvariance, RefusalsInvariant, PTL

\* No envelope of the protocol and no blank is ever shown as the answer.
THEOREM AnswersShown == Spec => []OnlyAnswersShown
<1>1. TurnInvariant => OnlyAnswersShown
  BY DEF TurnInvariant
<1>2. QED  BY <1>1, TurnInvariance, PTL

=============================================================================
