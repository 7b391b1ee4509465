----------------------------- MODULE MetadataPlan -----------------------------
(***************************************************************************)
(* The metadata runtime of the community backend: source files become a    *)
(* snapshot and a verdict, and a dry-run plan lists what would have to     *)
(* change in a workspace.  Nothing is ever applied.                        *)
(*                                                                         *)
(* A file is [type, folder, status, version, kind, wrapped, owner,         *)
(* payload, fields]: what its path says (isMetadataRuntime*File, the       *)
(* segment after objects/), how its text parses, its envelope, and its     *)
(* document as a function from keys to values, nested under the key its    *)
(* consumer looks for when wrapped.  Absent stands for a key that is       *)
(* missing.  The name of an object or a field is the sequence of its parts *)
(* between dots, and joining two names by a dot puts one after the other.  *)
(***************************************************************************)
EXTENDS Naturals, SequencesExt

CONSTANTS
    SourceFiles,  \* what may be uploaded
    Databases,    \* snapshots exportWorkspaceSnapshot may return
    MaxFiles,     \* bound on the files of an upload
    Absent

\* A document's inline fields are a list.
ASSUME PlanAssumption ==
    /\ MaxFiles \in Nat
    /\ \A file \in SourceFiles : Len(file.fields) \in Nat

VARIABLES
    upload,   \* the files of a dry run, in the order they were given
    database  \* the workspace's objects: name |-> [properties, fields]

planVars == <<upload, database>>

SupportedVersion == "v1"
TaxonomyKinds == {"view", "role"}
Get(properties, key) == IF key \in DOMAIN properties THEN properties[key] ELSE Absent
Put(f, key, value) == [k \in DOMAIN f \cup {key} |-> IF k = key THEN value ELSE f[k]]

----------------------------------------------------------------------------
(* Loading and parsing.  What is parsed so far is [objects, taxonomy,      *)
(* errors]: an object's entry may hold fields before its own definition.   *)

NoEntry == [defined |-> FALSE, properties |-> <<>>, fields |-> <<>>]
NothingParsed == [objects |-> <<>>, taxonomy |-> <<>>, errors |-> {}]

EntryOf(parsed, name) == IF name \in DOMAIN parsed.objects THEN parsed.objects[name] ELSE NoEntry
WithEntry(parsed, name, entry) == [parsed EXCEPT !.objects = Put(@, name, entry)]
WithObject(parsed, name, object) ==
    WithEntry(parsed, name, [EntryOf(parsed, name) EXCEPT !.defined = TRUE, !.properties = object])
WithField(parsed, object, name, field) ==
    WithEntry(parsed, object, [EntryOf(parsed, object) EXCEPT !.fields = Put(@, name, field)])
Error(parsed, code) == [parsed EXCEPT !.errors = @ \cup {code}]

\* A document that does not wrap its payload carries its envelope's keys too.
Document(file) ==
    IF file.wrapped THEN file.payload
    ELSE file.payload @@ (IF file.version = Absent THEN <<>> ELSE "schemaVersion" :> file.version)
                      @@ (IF file.kind = Absent THEN <<>> ELSE "kind" :> file.kind)
                      @@ (IF file.owner = Absent THEN <<>> ELSE "objectNameSingular" :> file.owner)

\* validateDocumentEnvelope: what refuses a document outright.
EnvelopeErrors(file) ==
    LET kinds == {"object", "field"}
        implied == IF file.type = "field" THEN "field" ELSE "object"
    IN  IF file.version \notin {Absent, SupportedVersion} THEN {"SCHEMA_VERSION_UNSUPPORTED"}
        ELSE IF file.kind \notin kinds \cup TaxonomyKinds \cup {Absent} THEN {"KIND_UNSUPPORTED"}
        ELSE IF file.kind \in kinds /\ file.kind # implied THEN {"KIND_PATH_MISMATCH"}
        ELSE {}

\* The taxonomy kind a document declares, or its path implies.
TaxonomyKind(file) ==
    IF file.kind \in TaxonomyKinds THEN file.kind
    ELSE IF file.kind = Absent /\ file.type \in TaxonomyKinds THEN file.type
    ELSE Absent

\* Legacy relations, [type, targetObject], get the shape of the contract,
\* [id, direction, target]; in field files only.
normalizeLegacyRelationField(field) ==
    LET relation == Get(field, "relation")
    IN IF /\ Get(field, "type") = "RELATION" /\ "relationDefinition" \notin DOMAIN field
          /\ relation # Absent /\ relation.type # Absent /\ relation.targetObject # Absent
       THEN [k \in (DOMAIN field \ {"relation"}) \cup {"relationDefinition"} |->
                IF k = "relationDefinition"
                THEN [id |-> Absent, direction |-> relation.type, target |-> relation.targetObject]
                ELSE field[k]]
       ELSE field

ConsumeInlineField(parsed, object, field) ==
    LET name == Get(field, "name")
    IN  IF name = Absent THEN Error(parsed, "FIELD_NAME_MISSING")
        ELSE IF name \in DOMAIN EntryOf(parsed, object).fields THEN Error(parsed, "DUPLICATE_FIELD")
        ELSE WithField(parsed, object, name, field)

\* The fields in an object's own document, one after the other.
consumeInlineFields(parsed, object, fields) ==
    LET upTo[n \in 0..Len(fields)] ==
            IF n = 0 THEN parsed ELSE ConsumeInlineField(upTo[n - 1], object, fields[n])
    IN  upTo[Len(fields)]

consumeObjectDocument(parsed, file) ==
    LET object == Document(file)
        name == Get(object, "nameSingular")
    IN  IF name = Absent THEN Error(parsed, "OBJECT_NAME_MISSING")
        ELSE IF EntryOf(parsed, name).defined THEN Error(parsed, "DUPLICATE_OBJECT")
        ELSE consumeInlineFields(WithObject(parsed, name, object), name, file.fields)

\* Mutant of consumeFieldDocument: a field that is defined twice is replaced.
consumeFieldDocumentLast(parsed, file) ==
    LET object == IF file.owner # Absent THEN file.owner ELSE file.folder
        field == Document(file)
        name == Get(field, "name")
    IN  IF object = Absent THEN Error(parsed, "FIELD_OBJECT_MISSING")
        ELSE IF name = Absent THEN Error(parsed, "FIELD_NAME_MISSING")
        ELSE WithField(parsed, object, name, normalizeLegacyRelationField(field))

consumeFieldDocument(parsed, file) ==
    LET object == IF file.owner # Absent THEN file.owner ELSE file.folder
        field == Document(file)
        name == Get(field, "name")
    IN  IF object = Absent THEN Error(parsed, "FIELD_OBJECT_MISSING")
        ELSE IF name = Absent THEN Error(parsed, "FIELD_NAME_MISSING")
        ELSE IF name \in DOMAIN EntryOf(parsed, object).fields THEN Error(parsed, "DUPLICATE_FIELD")
        ELSE WithField(parsed, object, name, normalizeLegacyRelationField(field))

\* A later component of the same identity takes the place of an earlier one
\* when the snapshot is indexed.
consumeTaxonomyDocument(parsed, file) ==
    LET identity == <<TaxonomyKind(file), Get(file.payload, "apiName")>>
    IN  [parsed EXCEPT !.taxonomy = Put(@, identity, file.payload)]

\* loadFromFiles, then one turn of parseFiles.  A file outside the contract
\* is ignored with a warning; a field's path decides before its kind does.
Consume(parsed, file) ==
    IF file.type = "other" THEN parsed
    ELSE IF file.status = "broken" THEN Error(parsed, "PARSE_ERROR")
    ELSE IF file.status = "scalar" THEN Error(parsed, "INVALID_DOCUMENT")
    ELSE IF EnvelopeErrors(file) # {} THEN [parsed EXCEPT !.errors = @ \cup EnvelopeErrors(file)]
    ELSE IF file.type = "field" \/ file.kind = "field" THEN consumeFieldDocument(parsed, file)
    ELSE IF TaxonomyKind(file) # Absent THEN consumeTaxonomyDocument(parsed, file)
    ELSE consumeObjectDocument(parsed, file)

\* The loop of parseFiles.
Consumed(files) ==
    LET upTo[n \in 0..Len(files)] == IF n = 0 THEN NothingParsed ELSE Consume(upTo[n - 1], files[n])
    IN  upTo[Len(files)]

\* Fields of an object that no file defines are refused at the end.
parseFiles(files) ==
    LET parsed == Consumed(files)
        orphans == {n \in DOMAIN parsed.objects : ~parsed.objects[n].defined}
    IN  IF orphans = {} THEN parsed ELSE Error(parsed, "ORPHAN_FIELDS")

\* The sorted snapshot: objects and fields by name, whatever order they came in.
SnapshotOf(parsed) ==
    [n \in {m \in DOMAIN parsed.objects : parsed.objects[m].defined} |->
        [properties |-> parsed.objects[n].properties, fields |-> parsed.objects[n].fields]]

\* validateFiles on top of the parser.
SnapshotErrors(parsed) ==
    LET snapshot == SnapshotOf(parsed)
        fields == UNION {{snapshot[n].fields[f] : f \in DOMAIN snapshot[n].fields} : n \in DOMAIN snapshot}
    IN  {e \in {"OBJECT_IDENTITY_INCOMPLETE", "FIELD_IDENTITY_INCOMPLETE", "CAPABILITY_UNAVAILABLE"} :
            \/ /\ e = "OBJECT_IDENTITY_INCOMPLETE"
               /\ \E n \in DOMAIN snapshot : Get(snapshot[n].properties, "namePlural") = Absent
            \/ /\ e = "FIELD_IDENTITY_INCOMPLETE"
               /\ \E f \in fields : Get(f, "type") = Absent
            \/ /\ e = "CAPABILITY_UNAVAILABLE"
               /\ \/ \E f \in fields : Get(f, "type") \in {"FORMULA", "ROLLUP"}
                  \/ DOMAIN parsed.taxonomy # {}}

validateFiles(files) ==
    LET parsed == parseFiles(files)
        errors == parsed.errors \cup SnapshotErrors(parsed)
    IN  [valid |-> errors = {}, snapshot |-> SnapshotOf(parsed), taxonomy |-> parsed.taxonomy]

----------------------------------------------------------------------------
(* The plan.  A snapshot is indexed as one map from identities to          *)
(* properties: <<"object", name>>, <<"field", joined names>>, and          *)
(* <<"component", kind, name>>.                                            *)

ignoreFields == {"id", "workspaceId", "createdAt", "updatedAt", "objectMetadataId",
                 "labelIdentifierFieldMetadataId", "imageIdentifierFieldMetadataId"}

\* normalizeFieldForDiff keeps of a relation what does not depend on the
\* database it lives in; absent keys compare as absent.
normalizeFieldForDiff(field) ==
    IF "relationDefinition" \in DOMAIN field
    THEN [field EXCEPT !["relationDefinition"] = [@ EXCEPT !.id = Absent]] ELSE field

FieldsOf(snapshot) ==
    UNION {{<<n, f>> : f \in DOMAIN snapshot[n].fields} : n \in DOMAIN snapshot}

\* Of two fields whose names join to the same identity one is kept.
indexSnapshot(snapshot, taxonomy) ==
    LET objects == {<<"object", n>> : n \in DOMAIN snapshot}
        fields == {<<"field", p[1] \o p[2]>> : p \in FieldsOf(snapshot)}
        components == {<<"component", i[1], i[2]>> : i \in DOMAIN taxonomy}
        field(i) == CHOOSE p \in FieldsOf(snapshot) : p[1] \o p[2] = i[2]
    IN  [i \in objects \cup fields \cup components |->
            IF i[1] = "object" THEN snapshot[i[2]].properties
            ELSE IF i[1] = "field" THEN normalizeFieldForDiff(snapshot[field(i)[1]].fields[field(i)[2]])
            ELSE taxonomy[<<i[2], i[3]>>]]

\* What a change is said to be about: an identity is split at its dots, and
\* the first two parts are taken for the object and the field.
Subject(i) == IF i[1] = "field" THEN <<"field", <<i[2][1]>>, <<i[2][2]>>>> ELSE i

\* stableStringify compares values whatever the order of their keys.
getPropertyChanges(before, after) ==
    {k \in (DOMAIN before \cup DOMAIN after) \ ignoreFields : Get(before, k) # Get(after, k)}

\* Mutant of diffIndexes: what the target no longer has is left alone.
diffIndexesKeeping(current, target) ==
    LET At(index, i) == IF i \in DOMAIN index THEN index[i] ELSE Absent
        action(i) == IF i \notin DOMAIN current THEN "create" ELSE "update"
    IN  {[action |-> action(i), subject |-> Subject(i), after |-> At(target, i)] :
            i \in {j \in DOMAIN target : j \in DOMAIN current => getPropertyChanges(current[j], target[j]) # {}}}

diffIndexes(current, target) ==
    LET changed == {i \in DOMAIN current \cap DOMAIN target : getPropertyChanges(current[i], target[i]) # {}}
        change(action, i) == [action |-> action, subject |-> Subject(i),
                              after |-> IF action = "delete" THEN <<>> ELSE target[i]]
    IN  {change("create", i) : i \in DOMAIN target \ DOMAIN current}
        \cup {change("update", i) : i \in changed}
        \cup {change("delete", i) : i \in DOMAIN current \ DOMAIN target}

\* buildDryRunPlan: what the workspace holds against what the files say,
\* whether they are valid or not.
Plan(snapshot, files) ==
    LET target == validateFiles(files)
    IN  diffIndexes(indexSnapshot(snapshot, <<>>), indexSnapshot(target.snapshot, target.taxonomy))

----------------------------------------------------------------------------
PlanInit == upload = <<>> /\ database \in Databases

AddFile ==
    /\ Len(upload) < MaxFiles
    /\ \E file \in SourceFiles : upload' = Append(upload, file)
    /\ UNCHANGED database

PlanSpec == PlanInit /\ [][AddFile]_planVars

\* The order in which files are given changes neither the verdict nor what a
\* valid upload describes: definitions of one thing in two files are refused,
\* and fields may come before their object.
OrderIrrelevant ==
    LET given == validateFiles(upload)
    IN  \A p \in SetToSeqs(DOMAIN upload) :
            LET other == validateFiles([i \in DOMAIN upload |-> upload[p[i]]])
            IN  /\ other.valid = given.valid
                /\ given.valid => other.snapshot = given.snapshot

\* What a snapshot holds, by what it is about.
Contents(snapshot, taxonomy) ==
    LET objects == {<<"object", n>> : n \in DOMAIN snapshot}
        fields == {<<"field", p[1], p[2]>> : p \in FieldsOf(snapshot)}
        components == {<<"component", i[1], i[2]>> : i \in DOMAIN taxonomy}
    IN  [s \in objects \cup fields \cup components |->
            IF s[1] = "object" THEN snapshot[s[2]].properties
            ELSE IF s[1] = "field" THEN normalizeFieldForDiff(snapshot[s[2]].fields[s[3]])
            ELSE taxonomy[<<s[2], s[3]>>]]

\* Contents with the changes of a plan made to them.
Replayed(before, plan) ==
    LET touched == {c.subject : c \in plan}
        deleted == {c.subject : c \in {d \in plan : d.action = "delete"}}
    IN  [s \in (DOMAIN before \cup touched) \ deleted |->
            IF s \in touched THEN (CHOOSE c \in plan : c.subject = s).after ELSE before[s]]

\* No field, nor its object, has a dot in its name.
Undotted(snapshot) ==
    \A p \in FieldsOf(snapshot) : p[1] = <<p[1][1]>> /\ p[2] = <<p[2][1]>>

\* As long as names have no dots, replaying a plan on the objects and fields
\* it names leads from the workspace to what the files describe, up to the
\* ignored keys, and what it creates was not there.
PlanReachesTarget ==
    \A target \in {validateFiles(upload)}, plan \in {Plan(database, upload)} :
    \A before \in {Contents(database, <<>>)}, after \in {Contents(target.snapshot, target.taxonomy)} :
        Undotted(database) /\ Undotted(target.snapshot) =>
            /\ DOMAIN Replayed(before, plan) = DOMAIN after
            /\ \A s \in DOMAIN after : getPropertyChanges(Replayed(before, plan)[s], after[s]) = {}
            /\ \A c \in plan : c.action = "create" <=> c.subject \notin DOMAIN before

=============================================================================
