----------------------------- MODULE MCPlatform -----------------------------
(* Small instances of the parts of the community backend that surround the  *)
(* runtime.  They share no state, so each is explored on its own: `part`    *)
(* names the one at work.                                                   *)
EXTENDS RunSetup, MetadataPlan, GuardrailRules, TLC

VARIABLE part

----------------------------------------------------------------------------
(* Three console users, two of them of the seeded employee's workspace.     *)

MCUsers == {"demo", "peer", "guest"}
MCWorkspaceOf == [demo |-> "home", peer |-> "home", guest |-> "away"]
MCRoleOf == [demo |-> "operator", peer |-> "clerk", guest |-> "visitor"]

MCTools == {"record.update", "send"}
MCOperationOf == "record.update" :> "update" @@ "send" :> None
MCMatches == "record.*" :> {"record.update"} @@ "send" :> {"send"}

Approve == [pattern |-> "record.*", object |-> "Task", operation |-> "update",
            level |-> "L3", action |-> "approve"]
Audit == [pattern |-> "send", object |-> None, operation |-> "send",
          level |-> "L1", action |-> "audit"]
Block == [pattern |-> "send", object |-> Wildcard, operation |-> "send",
          level |-> "L0", action |-> "block"]

\* Accepted and refused inputs; bounds are met exactly and missed by one.
MCInputs ==
    {[allowed |-> MCTools, rules |-> <<Audit, Block, Approve>>,
      execution |-> [maxReActIterations |-> 50, timeoutMs |-> 1000]],
     [allowed |-> None, rules |-> <<Approve>>, execution |-> None],
     [allowed |-> {}, rules |-> <<[Audit EXCEPT !.action = "page"]>>, execution |-> None],
     [allowed |-> {"send"}, rules |-> None,
      execution |-> [maxReActIterations |-> 0, timeoutMs |-> None]],
     [allowed |-> None, rules |-> None,
      execution |-> [maxReActIterations |-> None, timeoutMs |-> 600001]]}

----------------------------------------------------------------------------
(* Files about an object `contact` with its fields, one of them with a dot *)
(* in its name, and what is not one.                                       *)

File == [type |-> "object", folder |-> <<"contact">>, status |-> "ok", version |-> "v1",
         kind |-> "object", wrapped |-> TRUE, owner |-> Absent, payload |-> <<>>, fields |-> <<>>]
FieldFile == [File EXCEPT !.type = "field", !.kind = "field"]

Contact == "nameSingular" :> <<"contact">> @@ "namePlural" :> "contacts"
Name == "name" :> <<"name">> @@ "type" :> "TEXT"
Email == "name" :> <<"email">> @@ "type" :> "TEXT"
WorkEmail == "name" :> <<"email", "work">> @@ "type" :> "TEXT"
Related(id) == [id |-> id, direction |-> "MANY_TO_ONE", target |-> "company"]
Legacy(target) == [type |-> "MANY_TO_ONE", targetObject |-> target]
Company == "name" :> <<"company">> @@ "type" :> "RELATION"

MCFiles ==
    {[File EXCEPT !.payload = Contact, !.fields = <<Name>>],
     [File EXCEPT !.payload = Contact @@ "label" :> "Contact", !.version = Absent, !.kind = Absent,
                  !.wrapped = FALSE],
     [File EXCEPT !.payload = "nameSingular" :> <<"lead">>, !.folder = <<"lead">>],
     [FieldFile EXCEPT !.payload = Name, !.owner = <<"contact">>],
     [FieldFile EXCEPT !.payload = Email],
     [FieldFile EXCEPT !.payload = WorkEmail],
     [FieldFile EXCEPT !.payload = Company @@ "relation" :> Legacy("company"), !.kind = Absent],
     [FieldFile EXCEPT !.payload = Company @@ "relation" :> Legacy(Absent)],
     [FieldFile EXCEPT !.payload = Email, !.kind = "view"],
     [FieldFile EXCEPT !.payload = Email, !.folder = Absent],
     [File EXCEPT !.type = "role", !.kind = "role", !.payload = "apiName" :> "clerk"],
     [File EXCEPT !.version = "v2"],
     [File EXCEPT !.status = "broken"],
     [File EXCEPT !.status = "scalar"],
     [File EXCEPT !.type = "other"]}

\* What the workspace may hold already: nothing, or an older contact.
MCDatabases ==
    {<<>>,
     <<"contact">> :> [properties |-> Contact @@ "id" :> "1" @@ "referenceHints" :> "{}",
                   fields |-> <<"email">> :> (Email @@ "id" :> "2")
                              @@ <<"company">> :> (Company @@ "relationDefinition" :> Related("3"))]}

----------------------------------------------------------------------------
(* Rules that overlap in what they match and differ in level or priority,  *)
(* for a workspace and for an agent bound to two of them.                  *)

TableRule(level, priority, conditions) ==
    [isActive |-> TRUE, riskLevel |-> level, priority |-> priority, conditions |-> conditions]

AllCalls == TableRule("L1", 1, <<>>)
LargeSend == TableRule("L3", 2, "operation" :> "send" @@ "amountThreshold" :> 5)
NamedFields == TableRule("L3", 2, "objectApiName" :> "Task" @@ "fieldApiNames" :> {"owner"})
Batches == TableRule("L4", 3, "batchSize" :> 2)
Inert == TableRule("L4", 1, "fieldApiNames" :> {})

MCTables ==
    {"r1" :> AllCalls @@ "r2" :> LargeSend @@ "r3" :> Batches,
     "r1" :> [AllCalls EXCEPT !.isActive = FALSE] @@ "r2" :> NamedFields @@ "r3" :> Inert,
     "r1" :> [LargeSend EXCEPT !.riskLevel = "L2", !.priority = 3] @@ "r2" :> LargeSend @@ "r3" :> NamedFields}

MCScopes == {{}, {"r2", "r3"}}

MCToolInputs ==
    {[tool |-> "send", input |-> "amount" :> 0 @@ "value" :> 5],
     [tool |-> "send", input |-> "amount" :> 5 @@ "operation" :> "note" @@ "records" :> <<1, 2>>],
     [tool |-> "record.update",
      input |-> "object" :> "Task" @@ "fields" :> [owner |-> 1, due |-> 2]]}

----------------------------------------------------------------------------
AnyTable == CHOOSE t \in Tables : TRUE

MCInit ==
    /\ Init /\ PlanInit /\ RulesInit
    /\ \/ part = "runs" /\ database = <<>> /\ table = AnyTable
       \/ part = "metadata" /\ table = AnyTable
       \/ part = "rules" /\ database = <<>>

MCNext ==
    /\ UNCHANGED part
    /\ \/ part = "runs" /\ Next /\ UNCHANGED <<planVars, rulesVars>>
       \/ part = "metadata" /\ AddFile /\ UNCHANGED <<vars, rulesVars>>
       \/ part = "rules" /\ RulesNext /\ UNCHANGED <<vars, planVars>>

MCSpec == MCInit /\ [][MCNext]_<<vars, planVars, rulesVars, part>>

\* Requests, and evaluations, differ in nothing but their name.
RequestSymmetry == Permutations(Requests) \cup Permutations(Evaluators)

=============================================================================
