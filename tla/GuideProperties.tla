-------------------------- MODULE GuideProperties --------------------------
(***************************************************************************)
(* What a reader of the API guide relies on.                               *)
(***************************************************************************)
EXTENDS ApiGuide

\* Types of the variables that steer the run.
TypeOK ==
  /\ pc \in {Idle, "section", "walk", "guide", "cover", "counts"}
  /\ edits \in 0..MaxEdits /\ run \in 0..MaxRuns
  /\ todo \in Seq(Range1(todo)) /\ rows \in Seq(Range1(rows)) /\ story \in Seq(Range1(story))
  /\ pc # "walk" => todo = <<>> /\ inputs = {} /\ rows = <<>>
  /\ \A file \in {guide, cover} : file.run \in 0..run /\ file.whole \in BOOLEAN

\* The response table of a value: each field once, its row after that of the
\* object or list it is in, and everything below a row that is there.
Once(table) == \A i, j \in DOMAIN table : table[i].node = table[j].node => i = j

ParentsFirst(root, table) ==
  \A i \in DOMAIN table :
    \/ table[i].node \in Range1(Inside(root)) \cup {root}
    \/ \E j \in 1..(i - 1) : table[i].node \in Range1(Below(table[j].node, table[j].typ))

Closed(root, table) ==
  \A n \in Range1(Inside(root)) \cup UNION {Range1(Below(r.node, r.typ)) : r \in Range1(table)} :
    \E i \in DOMAIN table : table[i].node = n

\* The guide on disk shows every field of an example in exactly one row, and
\* an object before its fields, however objects, lists and nulls are nested.
TablesComplete ==
  guide.whole =>
    \A s \in Range1(guide.story) :
      Once(s.rows) /\ ParentsFirst(s.api.root, s.rows) /\ Closed(s.api.root, s.rows)

\* What the type column says and what walk() does agree: a row with rows below
\* it reads as an object or an array, also if the example has a null there.
ParentsShown ==
  guide.whole =>
    \A s \in Range1(guide.story) : \A above, r \in Range1(s.rows) :
      r.node \in Range1(Below(above.node, above.typ)) => above.shown \in {"object", "array"}

\* The type that a class of this name declares for a key: the class of Auth's
\* sources if there is one, else that of the manifest; else a class above it.
Declared(class, key) ==
  LET now(c) == IF c \in DOMAIN schemas THEN schemas[c] ELSE manifest.models[c]
      known == DOMAIN schemas \cup DOMAIN manifest.models
      f[c \in known] == IF key \in DOMAIN now(c).own THEN {now(c).own[key]}
                        ELSE IF now(c).base \in known THEN f[now(c).base] ELSE {}
  IN IF class \in known THEN f[class] ELSE {}

\* The class of the object that a row's field is in.
Above(a, n) ==
  {IF a.response.wrapped THEN "ApiResponse" ELSE a.response.of :
     m \in {n} \cap Range1(Inside(a.root))}
  \cup {r.typ.of : r \in {q \in Range1(rows) : n \in Range1(Below(q.node, q.typ))}}

\* A field's type is the one declared by the class that the row above it names,
\* as the sources of Auth have it now: the schema that walk() carries along is
\* that of the object the field is in, and no class of an old manifest shows.
TypesDeclared ==
  pc = "walk" =>
    LET a == Head(queue) IN
    \A r \in Range1(rows) : \A class \in Above(a, r.node) :
      \/ Declared(class, Key[r.node]) \subseteq {r.typ}
      \/ a.group \in {"Banking", "Asset"} /\ Key[r.node] \in IdKeys
      \/ a.response.wrapped /\ Key[r.node] = "data" /\ r.typ.of = a.response.of

\* The index at the front names the sections in the order in which they
\* follow: every API of the four groups once, the internal ones not.
IndexIsContents ==
  pc = "cover" =>
    /\ guide.index = [i \in DOMAIN guide.story |-> guide.story[i].api.id]
    /\ \A i, j \in DOMAIN guide.index : guide.index[i] = guide.index[j] => i = j
    /\ Range1(guide.index) = {a.id : a \in {b \in Range1(manifest.apis) \cup Range1(NewAuth) :
                                              b.group \in Range1(Groups)}}

\* No field ever reaches the guide without a text: the run that meets one ends
\* and leaves the guide of an earlier run as it is.
NothingUnexplained ==
  guide.whole =>
    \A s \in Range1(guide.story) :
      /\ \A r \in s.inputs : <<s.api.group, r.name>> \in Explained
      /\ \A r \in Range1(s.rows) :
           r.node = s.api.root \/ <<s.api.group, Key[r.node]>> \in Explained

\* The counts are of the guide that is there or of an older one, whenever the
\* run is stopped; those of the guide that is there are those of its tables.
CountsNotAhead ==
  /\ cover.run <= guide.run
  /\ cover.whole /\ cover.run = guide.run =>
       guide.whole /\ cover.counts = [i \in DOMAIN guide.story |-> Count(guide.story[i])]
=============================================================================
