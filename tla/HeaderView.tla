----------------------------- MODULE HeaderView -----------------------------
(***************************************************************************)
(* The header views of the gateway: SanitizedHeaderHttpServletRequest wraps *)
(* a servlet request, hides a set of header names, puts its own headers in *)
(* front and passes everything else through to the request it wraps.       *)
(*                                                                         *)
(* A header has a spelling (as the caller or the gateway wrote it) and a   *)
(* name, the spelling in lower case: Fold.  A view is what a reader of the *)
(* request gets: the spellings it enumerates and the values it reads under *)
(* a name.  Values are opaque.                                             *)
(***************************************************************************)
EXTENDS Sequences

CONSTANTS
  Spelling,     \* header spellings that occur
  HeaderName,   \* lower-case header names
  Fold,         \* the lower-case name of a spelling
  Value         \* header values

ASSUME FoldAssumption == Fold \in [Spelling -> HeaderName]

View == [names : SUBSET Spelling, values : [HeaderName -> Seq(Value)]]

FoldAll(S) == {Fold[s] : s \in S}

\* The map of lower-case names to the gateway's own values.
Added(own) == [n \in FoldAll(DOMAIN own) |-> own[CHOOSE s \in DOMAIN own : Fold[s] = n]]

\* Variant: the block list before the gateway's own values.
BlockedFirst(view, blocked, own) ==
  [n \in HeaderName |->
     IF n \in FoldAll(blocked) THEN <<>>
     ELSE IF n \in DOMAIN Added(own) THEN <<Added(own)[n]>>
     ELSE view.values[n]]

\* getHeader and getHeaders: the gateway's own value first, then the block
\* list, then whatever the wrapped request says.
VisibleValues(view, blocked, own) ==
  [n \in HeaderName |->
     IF n \in DOMAIN Added(own) THEN <<Added(own)[n]>>
     ELSE IF n \in FoldAll(blocked) THEN <<>>
     ELSE view.values[n]]

\* Variant: names compared as they are spelled.
NamesAsSpelled(view, blocked, own) ==
  {s \in view.names : s \notin blocked} \cup DOMAIN own

\* getHeaderNames: what the wrapped request enumerates without the blocked
\* names, and the gateway's own spellings.
VisibleNames(view, blocked, own) ==
  {s \in view.names : Fold[s] \notin FoldAll(blocked)} \cup DOMAIN own

\* The whole wrapper.  own is a function from spellings to values.
Sanitized(view, blocked, own) ==
  [names  |-> VisibleNames(view, blocked, own),
   values |-> VisibleValues(view, blocked, own)]

\* The one header a filter of the gateway adds.
OneHeader(spelling, value) == [s \in {spelling} |-> value]

(***************************************************************************)
(* The proxy copies a view to the wire by enumerating the spellings and    *)
(* copying the values under each: a view is coherent when no header is     *)
(* lost and none is copied twice under two spellings.                      *)
(***************************************************************************)
Coherent(view) ==
  \A n \in HeaderName :
    /\ view.values[n] # <<>> <=> \E s \in view.names : Fold[s] = n
    /\ \A s, t \in view.names : Fold[s] = n /\ Fold[t] = n => s = t
=============================================================================
