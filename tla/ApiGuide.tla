------------------------------ MODULE ApiGuide ------------------------------
(***************************************************************************)
(* scripts/pdf/build_api_guide.py, the program that writes the API guide    *)
(* for the front end.  A run reads the manifest and the classes of Auth,    *)
(* revises the APIs, makes for each API a table of inputs and a table of    *)
(* response fields, and saves the guide and, next to it, a count of what    *)
(* it documents.  Texts, column widths and fonts are left out.              *)
(*                                                                         *)
(* An example value is a tree of nodes.  A node that is an object has one   *)
(* item, a list any number of them, and an item is the sequence of the      *)
(* fields it consists of (none, when it is not an object).  The item of a   *)
(* null is what the guide shows in its place.  walk() is a stack machine:   *)
(* todo holds the calls that it has still to make.                          *)
(***************************************************************************)
EXTENDS Integers, Sequences, FiniteSets

CONSTANTS
  Node, Kind, Key, Items,  \* example values: all nodes, and what each one is
  Depth,          \* how deep a node is in its value
  Manifests,      \* contents api-manifest.json may have
  AuthClasses,    \* classes the sources of Auth may define
  Revision,       \* AUTH_UPDATES: per id, the new examples
  Correction,     \* per id, the answer whose values are corrected at the end
  NewAuth,        \* new_auth
  PolicyIds,      \* shown to operators only (API-22)
  Explained,      \* <<group, key>> that meaning() finds a text for
  NullTypes,      \* <<group, key>> that may be null although no class says so
  IdKeys,         \* numbers that Banking and Asset show as strings
  OptionalKeys,   \* fields of a body that need not be sent though no class says so
  Forced,         \* <<id, key>> that must be sent whatever the class says
  NoNode,         \* no body
  MaxEdits, MaxRuns

\* The fields of an object, and of the first item of a list.
Inside(n) == IF n \in Node /\ Items[n] # <<>> THEN Items[n][1] ELSE <<>>

\* Values are trees: a node is in one place only.
ASSUME TreeAssumption ==
  /\ Items \in [Node -> Seq(Seq(Node))] /\ NoNode \notin Node
  /\ MaxEdits \in Nat /\ MaxRuns \in Nat
  /\ Depth \in [Node -> Nat]
  /\ \A m, n \in Node : \A i \in DOMAIN Inside(m), j \in DOMAIN Inside(n) :
       /\ Inside(m)[i] = Inside(n)[j] => m = n /\ i = j
       /\ Depth[m] < Depth[Inside(m)[i]]

\* Only objects, lists and what stands for a null have fields inside; and the
\* class whose nulls are shown is in every manifest.
ASSUME ShapeAssumption ==
  /\ \A n \in Node : Inside(n) # <<>> => Kind[n] \in {"dict", "list", "null"}
  /\ \A m \in Manifests : "CategoryShare" \in DOMAIN m.models

\* One dictionary over another, as dict.update leaves it.
Overriding(f, g) ==
  [k \in DOMAIN f \cup DOMAIN g |-> IF k \in DOMAIN f THEN f[k] ELSE g[k]]

\* No class is above itself: of any classes, one has its base elsewhere.
Grounded(ms) ==
  \A C \in SUBSET DOMAIN ms : C # {} => \E c \in C : ms[c].base \notin C

\* Classes have names, and what is read from Auth makes no circle of them.
ASSUME ClassAssumption ==
  \A m \in Manifests, classes \in AuthClasses :
    "" \notin DOMAIN Overriding(classes, m.models) /\ Grounded(Overriding(classes, m.models))

VARIABLES
  manifest, schemas, edits,  \* the files it reads, and how often they were edited
  pc,       \* what the run does next
  models,   \* MODELS
  queue,    \* APIs whose sections are still to be written, in order
  index,    \* the index at the beginning of the guide: ids in order
  todo,     \* of the first API in the queue: fields to document, with their schema
  inputs, rows,  \* of the same API: its two tables
  story,    \* the sections so far
  guide, cover,  \* the two files it writes
  run       \* number of runs so far

inputFiles  == <<manifest, schemas, edits>>
memory      == <<models, queue, index, todo, inputs, rows, story>>
outputFiles == <<guide, cover>>
vars == <<inputFiles, pc, memory, outputFiles, run>>

Groups == <<"Auth", "Banking", "Asset", "Work">>

Range1(s) == {s[i] : i \in DOMAIN s}

\* Those elements of s that are in T, in their order.
Chosen(s, T) ==
  LET c[i \in 0..Len(s)] ==
        IF i = 0 THEN <<>> ELSE IF s[i] \in T THEN Append(c[i - 1], s[i]) ELSE c[i - 1]
  IN c[Len(s)]

OfGroup(apis, g) == Chosen(apis, {a \in Range1(apis) : a.group = g})
Grouped(apis) ==
  OfGroup(apis, Groups[1]) \o OfGroup(apis, Groups[2]) \o
  OfGroup(apis, Groups[3]) \o OfGroup(apis, Groups[4])

\* APIs have a group, and those of the guide's groups each an id of its own.
ASSUME ApiAssumption ==
  \A m \in Manifests :
    LET all == m.apis \o NewAuth IN
    /\ m.apis \in Seq(Range1(m.apis)) /\ NewAuth \in Seq(Range1(NewAuth))
    /\ \A i \in DOMAIN all :
         "group" \in DOMAIN all[i] /\ (all[i].group \in Range1(Groups) => "id" \in DOMAIN all[i])
    /\ \A i, j \in DOMAIN all :
         /\ all[i].group \in Range1(Groups) /\ all[j].group \in Range1(Groups)
         /\ all[i].id = all[j].id
         => i = j

\* Classes of the manifest, each replaced by the class of that name in Auth.
Merged == Overriding(schemas, manifest.models)

Policy(a) == a.operator \/ a.id \in PolicyIds

Revised(a) ==
  IF a.id \in DOMAIN Revision
  THEN [a EXCEPT !.request = Revision[a.id].request, !.root = Revision[a.id].root]
  ELSE a

Corrected(a) == IF a.id \in DOMAIN Correction THEN [a EXCEPT !.root = Correction[a.id]] ELSE a

\* Variant: the new APIs stay at the end.
AppendedApis == Grouped([i \in DOMAIN manifest.apis |-> Revised(manifest.apis[i])]) \o NewAuth

\* APIS: without the internal ones, revised, with the new ones in their group.
Apis ==
  LET all == Grouped(Grouped([i \in DOMAIN manifest.apis |-> Revised(manifest.apis[i])]) \o NewAuth)
  IN [i \in DOMAIN all |-> Corrected(all[i])]

ForOperators(apis) == Chosen(apis, {a \in Range1(apis) : Policy(a)})
ForAll(apis) == Chosen(apis, {a \in Range1(apis) : ~Policy(a)})

Ordered(apis) == ForAll(apis) \o ForOperators(apis)

\* A section for each group, and one of what is for operators.
Sections(apis) == Grouped(ForAll(apis)) \o ForOperators(apis)

(***************************************************************************)
(* Types.  A type names a class or a plain type, may be a list of it       *)
(* (many) and may be null.                                                 *)
(***************************************************************************)
NoType == [of |-> "", many |-> FALSE, null |-> FALSE, need |-> TRUE]
Text(null) == [NoType EXCEPT !.of = "str", !.null = null]

\* fields: those a class inherits and its own, which win.
FieldsOf(ms, m) ==
  LET f[c \in DOMAIN ms] ==
        Overriding(ms[c].own, IF ms[c].base \in DOMAIN ms THEN f[ms[c].base] ELSE <<>>)
  IN IF m \in DOMAIN ms THEN f[m] ELSE <<>>

\* schema_for: the fields of the response, in the envelope of Auth or as they are.
SchemaFor(a) ==
  IF a.response.wrapped
  THEN Overriding([data |-> [NoType EXCEPT !.of = a.response.of, !.null = TRUE]],
                  FieldsOf(models, "ApiResponse"))
  ELSE FieldsOf(models, a.response.of)

\* The type that the table shows for a field, if its object has this schema.
TypeOf(a, schema, n) ==
  IF a.group \in {"Banking", "Asset"} /\ Key[n] \in IdKeys THEN Text(Kind[n] = "null")
  ELSE IF Key[n] \in DOMAIN schema THEN schema[Key[n]]
  ELSE IF <<a.group, Key[n]>> \in NullTypes THEN Text(TRUE)
  ELSE NoType

\* Variant: only the example is looked at.
ShownByExample(n, typ) ==
  CASE Kind[n] = "list" -> "array"
    [] Kind[n] = "dict" -> "object"
    [] Kind[n] = "number" -> "number"
    [] Kind[n] = "bool" -> "boolean"
    [] OTHER -> "text"

\* typename: how a type reads in the table; what it leaves open, the example tells.
Shown(n, typ) ==
  IF typ.many \/ Kind[n] = "list" THEN "array"
  ELSE IF typ.of \in DOMAIN models \/ Kind[n] = "dict" THEN "object"
  ELSE IF typ.of = "Decimal" THEN "amount"
  ELSE IF typ.of \in {"int", "Long", "Int"} THEN "integer"
  ELSE IF typ.of \in {"bool", "Boolean"} \/ Kind[n] = "bool" THEN "boolean"
  ELSE IF Kind[n] = "number" /\ typ.of \notin {"str", "date"} THEN "number" ELSE "text"

HasMeaning(a, key) == <<a.group, key>> \in Explained

(***************************************************************************)
(* request_rows                                                            *)
(***************************************************************************)
Parameters(a) ==
  a.params \cup {[name |-> v, where |-> "path", need |-> TRUE, of |-> "Long"] :
                   v \in {w \in a.variables : \A p \in a.params : p.name # w}}

Headers(a) ==
  (IF a.auth \/ (a.group = "Auth" /\ a.method = "GET") THEN {"Authorization"} ELSE {})
  \cup (IF a.transfers THEN {"Idempotency-Key"} ELSE {})
  \cup (IF a.operator THEN {"X-Internal-Token"} ELSE {})

\* add_body: the fields of the body, and of the lists in it.
BodyRows(a) ==
  LET f[n \in Node \cup {NoNode}, m \in DOMAIN models \cup {a.body, ""}] ==
        LET schema == FieldsOf(models, m)
            typ(c) == IF Key[c] \in DOMAIN schema THEN schema[Key[c]]
                      ELSE [NoType EXCEPT !.need = Key[c] \notin OptionalKeys]
        IN UNION {{[name |-> Key[c], where |-> "body", node |-> c, of |-> typ(c).of,
                    need |-> typ(c).need \/ <<a.id, Key[c]>> \in Forced]}
                  \cup (IF Kind[c] = "list" 
                        THEN f[c, IF typ(c).of \in DOMAIN models THEN typ(c).of ELSE ""] ELSE {}) :
                  c \in {Inside(n)[i] : i \in DOMAIN Inside(n)}}
  IN f[a.request, a.body]

\* A field the server fills in itself is mentioned although the example lacks it.
AssetRow(a) ==
  LET sent == {Key[Inside(a.request)[i]] : i \in DOMAIN Inside(a.request)}
  IN IF a.request # NoNode /\ "current_asset" \in DOMAIN FieldsOf(models, a.body) \ sent
     THEN {[name |-> "current_asset", where |-> "body", node |-> NoNode, of |-> "Decimal", need |-> FALSE]}
     ELSE {}

RequestRows(a) ==
  {[name |-> h, where |-> "header", node |-> NoNode, of |-> "str", need |-> TRUE] : h \in Headers(a)}
  \cup {[name |-> p.name, where |-> p.where, node |-> NoNode, need |-> p.need,
         of |-> IF a.group \in {"Banking", "Asset"} /\ p.name \in IdKeys THEN "str" ELSE p.of] :
          p \in {q \in Parameters(a) : q.where # "header"}}
  \cup BodyRows(a) \cup AssetRow(a)

(***************************************************************************)
(* A run                                                                   *)
(***************************************************************************)
NoFile == [run |-> 0, whole |-> FALSE]
Idle == "idle"

Forget ==
  /\ pc' = Idle
  /\ models' = <<>> /\ queue' = <<>> /\ index' = <<>>
  /\ todo' = <<>> /\ inputs' = {} /\ rows' = <<>> /\ story' = <<>>

Init ==
  /\ manifest \in Manifests /\ schemas \in AuthClasses /\ edits = 0
  /\ pc = Idle
  /\ models = <<>> /\ queue = <<>> /\ index = <<>>
  /\ todo = <<>> /\ inputs = {} /\ rows = <<>> /\ story = <<>>
  /\ guide = NoFile /\ cover = NoFile /\ run = 0

\* The manifest or the sources of Auth change, between two runs.
Edit ==
  /\ pc = Idle /\ edits < MaxEdits
  /\ edits' = edits + 1
  /\ manifest' \in Manifests /\ schemas' \in AuthClasses
  /\ UNCHANGED <<pc, memory, outputFiles, run>>

Load ==
  /\ pc = Idle /\ run < MaxRuns
  /\ run' = run + 1
  /\ models' = Merged
  /\ queue' = Sections(Apis)
  /\ index' = [i \in DOMAIN Ordered(Apis) |-> Ordered(Apis)[i].id]
  /\ pc' = "section"
  /\ UNCHANGED <<inputFiles, todo, inputs, rows, story, outputFiles>>

Calls(nodes, schema, maybe) ==
  [i \in DOMAIN nodes |-> [node |-> nodes[i], schema |-> schema, maybe |-> maybe]]

\* response_rows: a response that is a list has a row of its own.
OpenSection ==
  /\ pc = "section" /\ queue # <<>>
  /\ \A r \in RequestRows(Head(queue)) : HasMeaning(Head(queue), r.name)
  /\ LET a == Head(queue) IN
       /\ inputs' = RequestRows(a)
       /\ rows' = IF Kind[a.root] = "list"
                  THEN <<[node |-> a.root, typ |-> NoType, shown |-> "array", null |-> FALSE, maybe |-> FALSE]>>
                  ELSE <<>>
       /\ todo' = Calls(Inside(a.root), SchemaFor(a), FALSE)
  /\ pc' = "walk"
  /\ UNCHANGED <<inputFiles, models, queue, index, story, outputFiles, run>>

\* What walk() does below a field of this type: nothing below a scalar, and
\* below a null only if it stands for a CategoryShareResponse.
Below(n, typ) ==
  IF n \in Node /\ Kind[n] = "null" /\ (typ.of # "CategoryShare" \/ typ.many)
  THEN <<>> ELSE Inside(n)

\* Variants: the fields below keep the schema of the object they are in, and
\* the call for the next field is given up for those below.
FollowingOldSchema(f, typ) ==
  Calls(Below(f.node, typ), f.schema, f.maybe \/ Kind[f.node] = "null") \o Tail(todo)

FollowingBelowOnly(f, typ) ==
  IF Below(f.node, typ) = <<>> THEN Tail(todo)
  ELSE Calls(Below(f.node, typ), FieldsOf(models, typ.of), f.maybe \/ Kind[f.node] = "null")

\* Everything below a field comes before the field next to it.
Following(f, typ) ==
  Calls(Below(f.node, typ), FieldsOf(models, typ.of), f.maybe \/ Kind[f.node] = "null") \o Tail(todo)

\* Variant: a field without a text gets an empty one.
DocumentBlank ==
  /\ pc = "walk" /\ todo # <<>>
  /\ LET f == Head(todo)
         typ == TypeOf(Head(queue), f.schema, f.node)
     IN /\ rows' = Append(rows, [node |-> f.node, typ |-> typ, maybe |-> f.maybe,
                                 shown |-> Shown(f.node, typ),
                                 null |-> typ.null \/ Kind[f.node] = "null"])
        /\ todo' = Following(f, typ)
  /\ UNCHANGED <<inputFiles, pc, models, queue, index, inputs, story, outputFiles, run>>

\* One field of the response.
Document ==
  /\ pc = "walk" /\ todo # <<>>
  /\ HasMeaning(Head(queue), Key[Head(todo).node])
  /\ LET f == Head(todo)
         typ == TypeOf(Head(queue), f.schema, f.node)
     IN /\ rows' = Append(rows, [node |-> f.node, typ |-> typ, maybe |-> f.maybe,
                                 shown |-> Shown(f.node, typ),
                                 null |-> typ.null \/ Kind[f.node] = "null"])
        /\ todo' = Following(f, typ)
  /\ UNCHANGED <<inputFiles, pc, models, queue, index, inputs, story, outputFiles, run>>

\* Variant: the table of the API before is kept.
CloseSectionKeepingRows ==
  /\ pc = "walk" /\ todo = <<>>
  /\ story' = Append(story, [api |-> Head(queue), inputs |-> inputs, rows |-> rows])
  /\ queue' = Tail(queue)
  /\ pc' = "section"
  /\ UNCHANGED <<inputFiles, models, index, todo, inputs, rows, outputFiles, run>>

CloseSection ==
  /\ pc = "walk" /\ todo = <<>>
  /\ story' = Append(story, [api |-> Head(queue), inputs |-> inputs, rows |-> rows])
  /\ queue' = Tail(queue)
  /\ inputs' = {} /\ rows' = <<>>
  /\ pc' = "section"
  /\ UNCHANGED <<inputFiles, models, index, todo, outputFiles, run>>

\* A field without a text (ValueError), a guide that cannot be written because
\* its folder is missing or a viewer has it open: the run ends as it is.
Fail ==
  /\ \/ pc = "section" /\ queue # <<>>
        /\ \E r \in RequestRows(Head(queue)) : ~HasMeaning(Head(queue), r.name)
     \/ pc = "walk" /\ todo # <<>> /\ ~HasMeaning(Head(queue), Key[Head(todo).node])
     \/ pc = "section" /\ queue = <<>>
  /\ Forget
  /\ UNCHANGED <<inputFiles, outputFiles, run>>

\* Variant: the counts are written first.
OpenGuideAfterCover ==
  /\ pc = "section" /\ queue = <<>>
  /\ cover' = [run |-> run, whole |-> FALSE]
  /\ pc' = "guide"
  /\ UNCHANGED <<inputFiles, memory, guide, run>>

\* doc.build opens the guide anew and writes it; then the counts likewise.
OpenGuide ==
  /\ pc = "section" /\ queue = <<>>
  /\ guide' = [run |-> run, whole |-> FALSE]
  /\ pc' = "guide"
  /\ UNCHANGED <<inputFiles, memory, cover, run>>

SaveGuide ==
  /\ pc = "guide"
  /\ guide' = [run |-> run, whole |-> TRUE, index |-> index, story |-> story]
  /\ pc' = "cover"
  /\ UNCHANGED <<inputFiles, memory, cover, run>>

OpenCover ==
  /\ pc = "cover"
  /\ cover' = [run |-> run, whole |-> FALSE]
  /\ pc' = "counts"
  /\ UNCHANGED <<inputFiles, memory, guide, run>>

Count(s) == [id |-> s.api.id, fields |-> Len(s.rows), inputs |-> Cardinality(s.inputs)]

SaveCover ==
  /\ pc = "counts"
  /\ cover' = [run |-> run, whole |-> TRUE,
               counts |-> [i \in DOMAIN story |-> Count(story[i])]]
  /\ Forget
  /\ UNCHANGED <<inputFiles, guide, run>>

\* The run is stopped, wherever it is.
Crash == pc # Idle /\ Forget /\ UNCHANGED <<inputFiles, outputFiles, run>>

Done == pc = Idle /\ run = MaxRuns /\ UNCHANGED vars

Next ==
  \/ Edit \/ Load \/ OpenSection \/ Document \/ CloseSection \/ Fail
  \/ OpenGuide \/ SaveGuide \/ OpenCover \/ SaveCover \/ Crash \/ Done

Spec == Init /\ [][Next]_vars
=============================================================================
