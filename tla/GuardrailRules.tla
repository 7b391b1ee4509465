--------------------------- MODULE GuardrailRules ---------------------------
(***************************************************************************)
(* The guardrail rules of a workspace: the table, the cache in front of it *)
(* with its time to live, and evaluations that load, match and assess them *)
(* (TypeOrmRuleProvider and GuardrailEngineService in the kernel, the same *)
(* two in one class in the backend).                                       *)
(*                                                                         *)
(* A field of a condition or of an input that is absent is not in its      *)
(* domain.  Time is counted in ticks; a load takes less than one.          *)
(***************************************************************************)
EXTENDS Naturals, Sequences, FiniteSets

CONSTANTS
    Evaluators,
    RuleIds,
    Tables,      \* what the workspace's rules may be: functions RuleIds -> Rule
    Scopes,      \* sets of ids an agent is bound to; {} asks for all rules
    ToolInputs,  \* pairs [tool, input] that are evaluated
    TTL,         \* RULE_CACHE_TTL
    MaxTime, MaxRuleEdits,
    Undefined

RISK_ORDER == <<"L0", "L1", "L2", "L3", "L4">>
RiskRank(level) == CHOOSE i \in DOMAIN RISK_ORDER : RISK_ORDER[i] = level

\* A row of guardrail_rules.
IsRule(rule) ==
    /\ rule.isActive \in BOOLEAN
    /\ rule.riskLevel \in {RISK_ORDER[i] : i \in DOMAIN RISK_ORDER}
    /\ rule.priority \in Nat
    /\ DOMAIN rule.conditions \subseteq
           {"objectApiName", "operation", "fieldApiNames", "amountThreshold", "batchSize"}

ASSUME RulesAssumption ==
    /\ {MaxTime, MaxRuleEdits} \subseteq Nat
    /\ TTL \in Nat \ {0}
    /\ IsFiniteSet(RuleIds)
    /\ \A scope \in Scopes : scope \subseteq RuleIds
    /\ \A rules \in Tables : \A id \in RuleIds : IsRule(rules[id])

VARIABLES
    table,    \* guardrail_rules
    cache,    \* the rules cached under a key, and until when
    clock,
    loads,    \* each evaluation: where it is and what it holds
    retired   \* tables that were replaced, and when

rulesVars == <<table, cache, clock, loads, retired>>

----------------------------------------------------------------------------
(* Matching and assessing: pure. *)

Field(record, name) == IF name \in DOMAIN record THEN record[name] ELSE Undefined

\* `a || b`: what is absent gives way to the other ...
Or(a, b) == IF a = Undefined THEN b ELSE a

\* ... and so does an amount of 0.
extractOperation(toolName, input) ==
    [objectApiName |-> Or(Field(input, "objectApiName"), Field(input, "object")),
     operation |-> Or(Field(input, "operation"), toolName),
     fieldApiNames |-> IF "fields" \in DOMAIN input THEN DOMAIN input.fields
                       ELSE IF "fieldApiNames" \in DOMAIN input THEN input.fieldApiNames ELSE {},
     amount |-> IF Field(input, "amount") = 0 THEN Field(input, "value")
                ELSE Or(Field(input, "amount"), Field(input, "value")),
     batchSize |-> IF "records" \in DOMAIN input THEN Len(input.records) ELSE Field(input, "batchSize")]

\* No condition matches everything; an empty list of fields is no condition,
\* and a rule with nothing else matches nothing.
matchRule(op, rule) ==
    LET cond == rule.conditions
        has(name) == name \in DOMAIN cond
        listsFields == has("fieldApiNames") /\ cond.fieldApiNames # {}
        executable == DOMAIN cond \ {"fieldApiNames"} # {} \/ listsFields
        reaches(value, name) == has(name) => value # Undefined /\ value >= cond[name]
    IN \/ DOMAIN cond = {}
       \/ /\ executable
          /\ has("objectApiName") => op.objectApiName = cond.objectApiName
          /\ has("operation") => op.operation = cond.operation
          /\ listsFields => op.fieldApiNames \cap cond.fieldApiNames # {}
          /\ reaches(op.amount, "amountThreshold")
          /\ reaches(op.batchSize, "batchSize")

\* The filter: the positions of the rules that match.
matchRules(op, rules) == {i \in DOMAIN rules : matchRule(op, rules[i])}

Beats(current, highest) ==
    \/ RiskRank(current.riskLevel) > RiskRank(highest.riskLevel)
    \/ /\ current.riskLevel = highest.riskLevel
       /\ current.priority < highest.priority

\* The reduce over the matched rules: a higher level wins, then a lower
\* priority; among equals the first stays.  Position 0: none so far.
assessRisk(rules, matched) ==
    LET highest[i \in 0..Len(rules)] ==
            IF i = 0 THEN 0
            ELSE IF i \in matched /\ (highest[i - 1] # 0 => Beats(rules[i], rules[highest[i - 1]]))
            THEN i ELSE highest[i - 1]
    IN rules[highest[Len(rules)]]

mapRiskToAction(level) ==
    CASE level = "L1" -> "audit"
      [] level = "L2" -> "confirm"
      [] level = "L3" -> "approve"
      [] level = "L4" -> "block"
      [] OTHER -> "allow"

evaluate(rules, request) ==
    LET matched == matchRules(extractOperation(request.tool, request.input), rules)
    IN IF matched = {}
       THEN [matched |-> FALSE, riskLevel |-> "L0", action |-> "allow", priority |-> 0]
       ELSE LET top == assessRisk(rules, matched)
            IN [matched |-> TRUE, riskLevel |-> top.riskLevel, priority |-> top.priority,
                action |-> mapRiskToAction(top.riskLevel)]

----------------------------------------------------------------------------
(* Loading *)

\* Mutant of cacheKey: agents share what was loaded for any of them.
cacheKeyOfWorkspace(scope) == {}

\* The sorted ids of the scope; the workspace as a whole has a key of its own.
cacheKey(scope) == scope

\* Active rules of the scope, in the order of their priority.
InScope(rules, scope) == {id \in RuleIds : rules[id].isActive /\ (scope # {} => id \in scope)}

\* find(..., order: priority ASC); equal priorities come in any order.
Found(rules, scope) ==
    {order \in [1..Cardinality(InScope(rules, scope)) -> InScope(rules, scope)] :
        \A i, j \in DOMAIN order : i < j =>
            order[i] # order[j] /\ rules[order[i]].priority <= rules[order[j]].priority}

NoLoad == [at |-> "idle", scope |-> {}, rules |-> <<>>, aged |-> FALSE,
           request |-> Undefined, given |-> Undefined, ended |-> 0]

RulesInit ==
    /\ table \in Tables
    /\ cache = [scope \in Scopes |-> Undefined]
    /\ clock = 0
    /\ loads = [e \in Evaluators |-> NoLoad]
    /\ retired = {}

Loading(e, at) == loads[e].at = at

\* With the rules loaded the verdict follows at once, for some tool call.
Answered(scope, rules) ==
    {[NoLoad EXCEPT !.at = "done", !.scope = scope, !.request = request,
                    !.given = evaluate(rules, request), !.ended = clock] : request \in ToolInputs}

\* What is still cached under the key is taken ...
CacheHit(e) ==
    /\ Loading(e, "idle")
    /\ \E scope \in Scopes :
           LET entry == cache[cacheKey(scope)]
           IN /\ entry # Undefined /\ entry.until > clock
              /\ \E answer \in Answered(scope, entry.rules) : loads' = [loads EXCEPT ![e] = answer]
    /\ UNCHANGED <<table, cache, clock, retired>>

\* ... and the table is read when there is nothing, or the cache cannot be reached.
CacheMiss(e) ==
    /\ Loading(e, "idle")
    /\ \E scope \in Scopes : loads' = [loads EXCEPT ![e].at = "find", ![e].scope = scope]
    /\ UNCHANGED <<table, cache, clock, retired>>

Find(e) ==
    /\ Loading(e, "find")
    /\ \E order \in Found(table, loads[e].scope) :
           loads' = [loads EXCEPT ![e].at = "store",
                                  ![e].rules = [i \in DOMAIN order |-> table[order[i]]]]
    /\ UNCHANGED <<table, cache, clock, retired>>

\* SET with its expiry; a failure is of no consequence.
Store(e) ==
    /\ Loading(e, "store")
    /\ \/ cache' = [cache EXCEPT ![cacheKey(loads[e].scope)] =
                        [rules |-> loads[e].rules, until |-> clock + TTL]]
       \/ UNCHANGED cache
    /\ \E answer \in Answered(loads[e].scope, loads[e].rules) : loads' = [loads EXCEPT ![e] = answer]
    /\ UNCHANGED <<table, clock, retired>>

\* Somebody edits the table; no cached entry is touched.
EditRules ==
    /\ Cardinality(retired) < MaxRuleEdits
    /\ \E rules \in Tables \ {table} :
           /\ table' = rules
           /\ retired' = retired \cup {[rules |-> table, until |-> clock]}
    /\ UNCHANGED <<cache, clock, loads>>

\* A load under way may see one tick pass, not two.
Elapse ==
    /\ clock < MaxTime
    /\ \A e \in Evaluators : ~loads[e].aged
    /\ clock' = clock + 1
    /\ loads' = [e \in Evaluators |-> [loads[e] EXCEPT !.aged = loads[e].at \in {"find", "store"}]]
    /\ UNCHANGED <<table, cache, retired>>

RulesNext ==
    \/ \E e \in Evaluators : CacheHit(e) \/ CacheMiss(e) \/ Find(e) \/ Store(e)
    \/ EditRules \/ Elapse

RulesSpec == RulesInit /\ [][RulesNext]_rulesVars

----------------------------------------------------------------------------
\* What a request should meet: the strictest active rule of the scope that
\* matches, and among equally strict ones the first by priority.
Strictest(rules, scope, request, given) ==
    LET op == extractOperation(request.tool, request.input)
        hit == {id \in InScope(rules, scope) : matchRule(op, rules[id])}
    IN IF hit = {} THEN ~given.matched
       ELSE /\ given.matched
            /\ \E id \in hit : /\ given.riskLevel = rules[id].riskLevel
                               /\ given.priority = rules[id].priority
            /\ \A id \in hit :
                   LET rank == RiskRank(rules[id].riskLevel)
                   IN \/ rank < RiskRank(given.riskLevel)
                      \/ rank = RiskRank(given.riskLevel) /\ given.priority <= rules[id].priority

\* The rules that were in force at `time`, or no more than `age` before it.
InForce(age, time) == {table} \cup {r.rules : r \in {q \in retired : q.until + age >= time}}

\* A verdict is what the rules of its own scope said no longer ago than the
\* cache keeps them, in ticks longer than a load: however loads that fill it,
\* edits, expiry and an unreachable cache interleave.
VerdictsCurrent ==
    \A e \in Evaluators : Loading(e, "done") =>
        \E rules \in InForce(TTL, loads[e].ended) :
            Strictest(rules, loads[e].scope, loads[e].request, loads[e].given)

=============================================================================
