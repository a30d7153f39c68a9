---------------------------- MODULE GuideProofs ----------------------------
(***************************************************************************)
(* Proofs that the tables of the guide are complete, for examples of any   *)
(* size and shape, and that its two files stay in step.                     *)
(***************************************************************************)
EXTENDS GuideProperties, FiniteSetTheorems, TLAPS

-----------------------------------------------------------------------------
\* Sequences of which only their own elements are known.
IsSeq(s) == s \in Seq(Range1(s))

LEMMA OwnRange ==
  ASSUME NEW S, NEW s \in Seq(S)
  PROVE  IsSeq(s)
<1>1. Len(s) \in Nat /\ DOMAIN s = 1..Len(s) /\ s = [i \in 1..Len(s) |-> s[i]]
  OBVIOUS
<1>2. \A i \in 1..Len(s) : s[i] \in Range1(s)
  BY <1>1 DEF Range1
<1>3. [i \in 1..Len(s) |-> s[i]] \in Seq(Range1(s))
  BY <1>1, <1>2
<1>4. QED
  BY <1>1, <1>3 DEF IsSeq

LEMMA SeqFacts ==
  ASSUME NEW s, IsSeq(s)
  PROVE  /\ Len(s) \in Nat /\ DOMAIN s = 1..Len(s)
         /\ s # <<>> => Len(s) > 0 /\ Head(s) = s[1]
         /\ s = <<>> => Len(s) = 0
BY DEF IsSeq

LEMMA Appended ==
  ASSUME NEW s, IsSeq(s), NEW x
  PROVE  /\ IsSeq(Append(s, x))
         /\ Len(Append(s, x)) = Len(s) + 1
         /\ Append(s, x)[Len(s) + 1] = x
         /\ \A i \in 1..Len(s) : Append(s, x)[i] = s[i]
         /\ Range1(Append(s, x)) = Range1(s) \cup {x}
<1> DEFINE S == Range1(s) \cup {x}
<1>1. s \in Seq(S) /\ x \in S
  BY DEF IsSeq
<1>2. Append(s, x) \in Seq(S) /\ Len(s) \in Nat /\ DOMAIN s = 1..Len(s)
  BY <1>1
<1>3. IsSeq(Append(s, x))
  BY <1>2, OwnRange
<1>4. /\ Len(Append(s, x)) = Len(s) + 1
      /\ Append(s, x)[Len(s) + 1] = x
      /\ \A i \in 1..Len(s) : Append(s, x)[i] = s[i]
      /\ DOMAIN Append(s, x) = 1..(Len(s) + 1)
  BY <1>1, <1>2
<1>5. Range1(Append(s, x)) = Range1(s) \cup {x}
  <2> HIDE DEF S
  <2>1. \A i \in 1..(Len(s) + 1) : i \in 1..Len(s) \/ i = Len(s) + 1
    BY <1>2
  <2>2. Len(s) + 1 \in 1..(Len(s) + 1) /\ 1..Len(s) \subseteq 1..(Len(s) + 1)
    BY <1>2
  <2>3. QED
    BY <1>2, <1>4, <2>1, <2>2 DEF Range1
<1>6. QED
  BY <1>3, <1>4, <1>5

LEMMA CallsFacts ==
  ASSUME NEW nodes \in Seq(Node), NEW schema, NEW maybe
  PROVE  /\ IsSeq(Calls(nodes, schema, maybe))
         /\ Len(Calls(nodes, schema, maybe)) = Len(nodes)
         /\ DOMAIN Calls(nodes, schema, maybe) = 1..Len(nodes)
         /\ \A i \in 1..Len(nodes) : Calls(nodes, schema, maybe)[i].node = nodes[i]
<1> DEFINE c == Calls(nodes, schema, maybe)
           F == [node : Node, schema : {schema}, maybe : {maybe}]
<1>1. Len(nodes) \in Nat /\ DOMAIN nodes = 1..Len(nodes) /\ \A i \in 1..Len(nodes) : nodes[i] \in Node
  OBVIOUS
<1>2. c = [i \in 1..Len(nodes) |-> [node |-> nodes[i], schema |-> schema, maybe |-> maybe]]
  BY <1>1 DEF Calls
<1>3. c \in Seq(F) /\ Len(c) = Len(nodes) /\ \A i \in 1..Len(nodes) : c[i].node = nodes[i]
  BY <1>1, <1>2
<1>4. IsSeq(c)
  <2> HIDE DEF c, F
  <2>1. QED
    BY <1>3, OwnRange
<1>5. QED
  BY <1>1, <1>2, <1>3, <1>4

LEMMA Concat ==
  ASSUME NEW S, NEW c \in Seq(S), NEW d \in Seq(S)
  PROVE  /\ c \o d \in Seq(S) /\ Len(c \o d) = Len(c) + Len(d)
         /\ \A i \in 1..(Len(c) + Len(d)) : (c \o d)[i] = IF i <= Len(c) THEN c[i] ELSE d[i - Len(c)]
OBVIOUS

\* The calls for the fields below, followed by the rest of the stack.
LEMMA Pushed ==
  ASSUME NEW nodes \in Seq(Node), NEW c, NEW t, NEW u,
         IsSeq(c), Len(c) = Len(nodes), \A i \in 1..Len(nodes) : c[i].node = nodes[i],
         IsSeq(t), t # <<>>, u = c \o Tail(t)
  PROVE  /\ IsSeq(u)
         /\ Len(u) = Len(nodes) + Len(t) - 1
         /\ \A i \in 1..Len(u) : i <= Len(nodes) => u[i].node = nodes[i]
         /\ \A i \in 1..Len(u) : i > Len(nodes) => u[i].node = t[i - Len(nodes) + 1].node
<1> DEFINE S == Range1(c) \cup Range1(t)
<1>1. Len(nodes) \in Nat
  OBVIOUS
<1>2. Len(c) = Len(nodes) /\ \A i \in 1..Len(nodes) : c[i].node = nodes[i]
  OBVIOUS
<1>3. c \in Seq(S) /\ t \in Seq(S)
  BY DEF IsSeq
<1> HIDE DEF S
<1>4. /\ Tail(t) \in Seq(S) /\ Len(Tail(t)) = Len(t) - 1 /\ Len(t) \in Nat /\ Len(t) > 0
      /\ \A i \in 1..(Len(t) - 1) : Tail(t)[i] = t[i + 1]
  BY <1>3
<1>5. u = c \o Tail(t)
  OBVIOUS
<1>6. u \in Seq(S) /\ Len(u) = Len(nodes) + Len(t) - 1
  <2>1. u \in Seq(S) /\ Len(u) = Len(c) + Len(Tail(t))
    BY <1>3, <1>4, <1>5, Concat
  <2>2. Len(u) = Len(nodes) + (Len(t) - 1)
    BY <1>2, <1>4, <1>5, <2>1
  <2>3. QED
    BY <1>1, <1>4, <1>5, <2>1, <2>2
<1>7. \A i \in 1..(Len(nodes) + Len(t) - 1) :
        u[i] = IF i <= Len(nodes) THEN c[i] ELSE Tail(t)[i - Len(nodes)]
  <2>1. Len(c) + Len(Tail(t)) = Len(nodes) + Len(t) - 1
    BY <1>1, <1>2, <1>4
  <2>2. QED
    BY <1>2, <1>3, <1>4, <1>5, <2>1, Concat
<1>8. \A i \in 1..(Len(nodes) + Len(t) - 1) :
        i > Len(nodes) => Tail(t)[i - Len(nodes)] = t[i - Len(nodes) + 1]
  BY <1>1, <1>4
<1>9. IsSeq(u)
  BY <1>6, OwnRange
<1>10. /\ \A i \in 1..Len(u) : i <= Len(nodes) => u[i].node = nodes[i]
       /\ \A i \in 1..Len(u) : i > Len(nodes) => u[i].node = t[i - Len(nodes) + 1].node
  BY <1>1, <1>2, <1>4, <1>6, <1>7, <1>8
<1>11. QED
  BY <1>6, <1>9, <1>10

LEMMA InsideNodes ==
  ASSUME NEW n
  PROVE  /\ Inside(n) \in Seq(Node)
         /\ n \notin Node => Inside(n) = <<>>
BY TreeAssumption DEF Inside

LEMMA BelowNodes ==
  ASSUME NEW n, NEW typ
  PROVE  /\ Below(n, typ) \in Seq(Node)
         /\ \A i \in DOMAIN Below(n, typ) : Below(n, typ)[i] = Inside(n)[i] /\ i \in DOMAIN Inside(n)
BY InsideNodes DEF Below

LEMMA DepthNat == \A n \in Node : Depth[n] \in Nat
BY TreeAssumption

LEMMA Tree ==
  ASSUME NEW m, NEW i \in DOMAIN Inside(m)
  PROVE  /\ m \in Node /\ Inside(m)[i] \in Node /\ Depth[m] < Depth[Inside(m)[i]]
         /\ \A n : \A j \in DOMAIN Inside(n) : Inside(m)[i] = Inside(n)[j] => m = n /\ i = j
<1>1. \A n : Inside(n) \in Seq(Node) /\ (\A j \in DOMAIN Inside(n) : n \in Node /\ Inside(n)[j] \in Node)
  BY InsideNodes
<1>2. QED
  BY <1>1, TreeAssumption

-----------------------------------------------------------------------------
(***************************************************************************)
(* The stack machine: what is documented and what is still to be called    *)
(* are apart, and together they are everything below what is documented.   *)
(***************************************************************************)
Walked(root, table, calls) ==
  /\ IsSeq(table) /\ IsSeq(calls)
  /\ Once(table) /\ Once(calls)
  /\ \A i \in DOMAIN calls, j \in DOMAIN table : calls[i].node # table[j].node
  /\ ParentsFirst(root, table)
  /\ \A i \in DOMAIN calls :
       /\ root \in Node /\ calls[i].node \in Node /\ Depth[root] < Depth[calls[i].node]
       /\ \/ calls[i].node \in Range1(Inside(root))
          \/ \E j \in DOMAIN table : calls[i].node \in Range1(Below(table[j].node, table[j].typ))
  /\ \A n \in Range1(Inside(root)) \cup UNION {Range1(Below(r.node, r.typ)) : r \in Range1(table)} :
       \/ \E i \in DOMAIN table : table[i].node = n
       \/ \E i \in DOMAIN calls : calls[i].node = n

\* The beginning: nothing, or a row for the list itself, is documented.
LEMMA WalkBegins ==
  ASSUME NEW root, NEW schema, NEW maybe, NEW table,
         \/ table = <<>>
         \/ \E r : table = <<r>> /\ r.node = root
  PROVE  Walked(root, table, Calls(Inside(root), schema, maybe))
<1> DEFINE calls == Calls(Inside(root), schema, maybe)
           I == Inside(root)
<1>1. I \in Seq(Node)
  BY InsideNodes
<1>2. DOMAIN I = 1..Len(I)
  BY <1>1
<1>3. IsSeq(calls) /\ DOMAIN calls = DOMAIN I /\ \A i \in DOMAIN I : calls[i].node = I[i]
  BY <1>1, <1>2, CallsFacts
<1>4. IsSeq(table) /\ \A i \in DOMAIN table : i = 1 /\ table[i].node = root
  <2>1. CASE table = <<>>
    BY <2>1 DEF IsSeq
  <2>2. CASE \E r : table = <<r>> /\ r.node = root
    <3>1. PICK r : table = <<r>> /\ r.node = root
      BY <2>2
    <3>2. <<r>> \in Seq({r}) /\ DOMAIN <<r>> = {1} /\ <<r>>[1] = r
      OBVIOUS
    <3>3. QED
      BY <3>1, <3>2, OwnRange
  <2>3. QED
    BY <2>1, <2>2
<1> HIDE DEF calls
<1>5. \A i \in DOMAIN I : root \in Node /\ I[i] \in Node /\ Depth[root] < Depth[I[i]]
                          /\ \A j \in DOMAIN I : I[i] = I[j] => i = j
  BY Tree
<1>6. \A i \in DOMAIN I : I[i] # root
  BY <1>5, DepthNat
<1>7. \A r \in Range1(table) : r.node = root
  BY <1>4 DEF Range1
<1>8. \A typ : Range1(Below(root, typ)) \subseteq Range1(I)
  BY BelowNodes DEF Range1
<1> HIDE DEF I
<1>9. Once(calls) /\ Once(table) /\ ParentsFirst(root, table)
  BY <1>3, <1>4, <1>5 DEF Once, ParentsFirst
<1>10. \A i \in DOMAIN calls, j \in DOMAIN table : calls[i].node # table[j].node
  BY <1>3, <1>4, <1>6
<1>11. \A i \in DOMAIN calls : root \in Node /\ calls[i].node \in Node /\ Depth[root] < Depth[calls[i].node]
                               /\ calls[i].node \in Range1(I)
  BY <1>3, <1>5 DEF Range1
<1>12. \A n \in Range1(I) : \E i \in DOMAIN calls : calls[i].node = n
  BY <1>3 DEF Range1
<1>13. UNION {Range1(Below(r.node, r.typ)) : r \in Range1(table)} \subseteq Range1(I)
  BY <1>7, <1>8
<1>14. Walked(root, table, calls)
  BY <1>3, <1>4, <1>9, <1>10, <1>11, <1>12, <1>13 DEF Walked, I
<1>15. QED
  BY <1>14 DEF calls

\* A step: the first call becomes a row, and what is below it is called.
LEMMA WalkGoesOn ==
  ASSUME NEW root, NEW table, NEW calls, Walked(root, table, calls), calls # <<>>,
         NEW row, row.node = Head(calls).node, NEW schema, NEW maybe
  PROVE  Walked(root, Append(table, row),
                Calls(Below(row.node, row.typ), schema, maybe) \o Tail(calls))
<1> DEFINE K == Below(row.node, row.typ)
           T == Append(table, row)
           C == Calls(K, schema, maybe) \o Tail(calls)
           N == row.node
<1>1. /\ IsSeq(table) /\ IsSeq(calls) /\ Len(table) \in Nat /\ Len(calls) \in Nat
      /\ DOMAIN table = 1..Len(table) /\ DOMAIN calls = 1..Len(calls)
      /\ Len(calls) > 0 /\ N = calls[1].node /\ 1 \in DOMAIN calls
  BY SeqFacts DEF Walked
<1>2. /\ IsSeq(T) /\ Len(T) = Len(table) + 1 /\ DOMAIN T = 1..(Len(table) + 1)
      /\ T[Len(table) + 1] = row
      /\ \A i \in 1..Len(table) : T[i] = table[i]
      /\ Range1(T) = Range1(table) \cup {row}
  BY <1>1, Appended, SeqFacts
<1>3. /\ K \in Seq(Node) /\ Len(K) \in Nat /\ DOMAIN K = 1..Len(K)
      /\ \A i \in 1..Len(K) : K[i] \in Node /\ K[i] = Inside(N)[i] /\ i \in DOMAIN Inside(N)
  <2>1. /\ K \in Seq(Node)
        /\ \A i \in DOMAIN K : K[i] = Inside(N)[i] /\ i \in DOMAIN Inside(N)
    BY BelowNodes
  <2> HIDE DEF K
  <2>2. QED
    BY <2>1
<1>4. /\ IsSeq(C) /\ Len(C) = Len(K) + Len(calls) - 1 /\ DOMAIN C = 1..Len(C)
      /\ \A i \in 1..Len(C) : i <= Len(K) => C[i].node = K[i]
      /\ \A i \in 1..Len(C) : i > Len(K) => C[i].node = calls[i - Len(K) + 1].node
  <2>1. K \in Seq(Node)
    BY <1>3
  <2>2. calls # <<>>
    OBVIOUS
  <2> HIDE DEF K
  <2>3. /\ IsSeq(C) /\ Len(C) = Len(K) + Len(calls) - 1
        /\ \A i \in 1..Len(C) : i <= Len(K) => C[i].node = K[i]
        /\ \A i \in 1..Len(C) : i > Len(K) => C[i].node = calls[i - Len(K) + 1].node
    <3>1. C = Calls(K, schema, maybe) \o Tail(calls)
      OBVIOUS
    <3> HIDE DEF C
    <3>2. QED
      <4>1. PICK c : c = Calls(K, schema, maybe)
        OBVIOUS
      <4>2. IsSeq(c) /\ Len(c) = Len(K) /\ \A i \in 1..Len(K) : c[i].node = K[i]
        BY <2>1, <4>1, CallsFacts
      <4>3. C = c \o Tail(calls)
        BY <3>1, <4>1
      <4>4. QED
        <5>1. IsSeq(calls)
          BY <1>1
        <5>2. IsSeq(C) /\ Len(C) = Len(K) + Len(calls) - 1
          BY <2>1, <2>2, <4>2, <4>3, <5>1, Pushed
        <5>3. \A i \in 1..Len(C) : i <= Len(K) => C[i].node = K[i]
          BY <2>1, <2>2, <4>2, <4>3, <5>1, Pushed
        <5>4. \A i \in 1..Len(C) : i > Len(K) => C[i].node = calls[i - Len(K) + 1].node
          BY <2>1, <2>2, <4>2, <4>3, <5>1, Pushed
        <5>5. QED
          BY <5>2, <5>3, <5>4
  <2> HIDE DEF C
  <2>4. DOMAIN C = 1..Len(C)
    BY <2>3, SeqFacts
  <2>5. QED
    BY <2>3, <2>4, Zenon
<1> HIDE DEF K, T, C
<1>5. /\ root \in Node /\ N \in Node /\ Depth[root] < Depth[N]
      /\ \A j \in DOMAIN table : N # table[j].node
  BY <1>1 DEF Walked
<1>6. \A i \in 1..Len(K) : Depth[N] < Depth[K[i]]
  BY <1>3, Tree
<1>7. \A i, j \in 1..Len(K) : K[i] = K[j] => i = j
  BY <1>3, Tree
\* What is below N is below nothing else, and so is not there yet.
<1>8. ASSUME NEW i \in 1..Len(K), NEW m, m # N, NEW typ
      PROVE  K[i] \notin Range1(Inside(m)) /\ K[i] \notin Range1(Below(m, typ))
  <2>1. \A j \in DOMAIN Inside(m) : K[i] # Inside(m)[j]
    BY <1>3, <1>8, Tree
  <2>2. \A j \in DOMAIN Below(m, typ) : Below(m, typ)[j] = Inside(m)[j] /\ j \in DOMAIN Inside(m)
    BY BelowNodes
  <2>3. QED
    BY <2>1, <2>2 DEF Range1
<1>9. root # N
  BY <1>5, DepthNat
<1>10. \A i \in 1..Len(K) : \A j \in DOMAIN table : K[i] # table[j].node
  <2>1. SUFFICES ASSUME NEW i \in 1..Len(K), NEW j \in DOMAIN table, K[i] = table[j].node
                 PROVE  FALSE
    OBVIOUS
  <2>2. CASE table[j].node = root
    <3>1. Depth[root] < Depth[N] /\ Depth[N] < Depth[root] /\ N \in Node /\ root \in Node
      BY <1>5, <1>6, <2>1, <2>2
    <3>2. QED
      BY <3>1, DepthNat
  <2>3. CASE table[j].node \in Range1(Inside(root))
    BY <1>8, <1>9, <2>1, <2>3
  <2>4. CASE \E k \in 1..(j - 1) : table[j].node \in Range1(Below(table[k].node, table[k].typ))
    <3>1. PICK k \in 1..(j - 1) : K[i] \in Range1(Below(table[k].node, table[k].typ))
      BY <2>1, <2>4
    <3>2. k \in DOMAIN table
      BY <1>1
    <3>3. QED
      BY <1>5, <1>8, <3>1, <3>2
  <2>5. ParentsFirst(root, table)
    BY DEF Walked
  <2>6. QED
    BY <2>2, <2>3, <2>4, <2>5 DEF ParentsFirst
<1>11. \A i \in 1..Len(K) : \A j \in DOMAIN calls : K[i] # calls[j].node
  <2>1. SUFFICES ASSUME NEW i \in 1..Len(K), NEW j \in DOMAIN calls, K[i] = calls[j].node
                 PROVE  FALSE
    OBVIOUS
  <2>2. \/ calls[j].node \in Range1(Inside(root))
        \/ \E k \in DOMAIN table : calls[j].node \in Range1(Below(table[k].node, table[k].typ))
    BY DEF Walked
  <2>3. QED
    BY <1>5, <1>8, <1>9, <2>1, <2>2
<1>12. \A i \in 1..Len(C) : i > Len(K) => i - Len(K) + 1 \in 2..Len(calls)
  BY <1>1, <1>3, <1>4
<1>13. Once(T)
  BY <1>1, <1>2, <1>5 DEF Walked, Once
<1>14. Once(C)
  <2>1. SUFFICES ASSUME NEW i \in 1..Len(C), NEW j \in 1..Len(C), C[i].node = C[j].node
                 PROVE  i = j
    BY <1>4 DEF Once
  <2>2. CASE i <= Len(K) /\ j <= Len(K)
    <3>1. i \in 1..Len(K) /\ j \in 1..Len(K) /\ C[i].node = K[i] /\ C[j].node = K[j]
      BY <1>3, <1>4, <2>2
    <3>2. QED
      BY <1>7, <2>1, <3>1
  <2>3. CASE i <= Len(K) /\ j > Len(K)
    <3>1. i \in 1..Len(K) /\ C[i].node = K[i]
      BY <1>3, <1>4, <2>3
    <3>2. j - Len(K) + 1 \in DOMAIN calls /\ C[j].node = calls[j - Len(K) + 1].node
      BY <1>1, <1>3, <1>4, <1>12, <2>3
    <3>3. QED
      BY <1>11, <2>1, <3>1, <3>2
  <2>4. CASE i > Len(K) /\ j <= Len(K)
    <3>1. j \in 1..Len(K) /\ C[j].node = K[j]
      BY <1>3, <1>4, <2>4
    <3>2. i - Len(K) + 1 \in DOMAIN calls /\ C[i].node = calls[i - Len(K) + 1].node
      BY <1>1, <1>3, <1>4, <1>12, <2>4
    <3>3. QED
      BY <1>11, <2>1, <3>1, <3>2
  <2>5. CASE i > Len(K) /\ j > Len(K)
    <3>1. calls[i - Len(K) + 1].node = calls[j - Len(K) + 1].node
      BY <1>1, <1>3, <1>4, <2>1, <2>5
    <3>2. i - Len(K) + 1 = j - Len(K) + 1
      BY <1>1, <1>12, <2>1, <2>5, <3>1 DEF Walked, Once
    <3>3. QED
      BY <1>1, <1>3, <1>4, <2>1, <3>2
  <2>6. QED
    BY <1>1, <1>3, <1>4, <2>1, <2>2, <2>3, <2>4, <2>5
<1>15. \A i \in DOMAIN C, j \in DOMAIN T : C[i].node # T[j].node
  <2>1. SUFFICES ASSUME NEW i \in 1..Len(C), NEW j \in 1..(Len(table) + 1)
                 PROVE  C[i].node # T[j].node
    BY <1>2, <1>4
  <2>2. CASE i <= Len(K)
    <3>1. C[i].node = K[i] /\ i \in 1..Len(K)
      BY <1>3, <1>4, <2>1, <2>2
    <3>2. K[i] # N /\ \A k \in DOMAIN table : K[i] # table[k].node
      BY <1>1, <1>10, <1>11, <3>1
    <3>3. CASE j \in 1..Len(table)
      <4>1. T[j] = table[j]
        BY <1>2, <3>3
      <4>2. QED
        BY <3>1, <3>2, <3>3, <4>1
    <3>4. CASE j = Len(table) + 1
      <4>1. T[j].node = N
        BY <1>2, <3>4
      <4>2. QED
        BY <3>1, <3>2, <4>1
    <3>5. QED
      BY <2>1, <3>3, <3>4
  <2>3. CASE i > Len(K)
    <3>1. PICK k \in 2..Len(calls) : C[i].node = calls[k].node
      BY <1>3, <1>4, <1>12, <2>1, <2>3
    <3>2. calls[k].node # N
      BY <1>1, <3>1 DEF Walked, Once
    <3>3. QED
      BY <1>1, <1>2, <2>1, <3>1, <3>2 DEF Walked
  <2>4. QED
    BY <1>3, <1>4, <2>1, <2>2, <2>3
<1>16. ParentsFirst(root, T)
  <2>1. SUFFICES ASSUME NEW i \in 1..(Len(table) + 1)
                 PROVE  \/ T[i].node \in Range1(Inside(root)) \cup {root}
                        \/ \E j \in 1..(i - 1) : T[i].node \in Range1(Below(T[j].node, T[j].typ))
    BY <1>2 DEF ParentsFirst
  <2>2. CASE i = Len(table) + 1
    <3>1. \/ N \in Range1(Inside(root))
          \/ \E j \in 1..Len(table) : N \in Range1(Below(table[j].node, table[j].typ))
      BY <1>1 DEF Walked
    <3>2. QED
      BY <1>1, <1>2, <2>2, <3>1
  <2>3. CASE i \in 1..Len(table)
    <3>1. \/ table[i].node \in Range1(Inside(root)) \cup {root}
          \/ \E j \in 1..(i - 1) : table[i].node \in Range1(Below(table[j].node, table[j].typ))
      BY <1>1, <2>3 DEF Walked, ParentsFirst
    <3>2. \A j \in 1..(i - 1) : j \in 1..Len(table)
      BY <1>1, <2>3
    <3>3. T[i] = table[i] /\ \A j \in 1..(i - 1) : T[j] = table[j]
      BY <1>2, <2>3, <3>2
    <3>4. QED
      BY <3>1, <3>3
  <2>4. QED
    BY <1>1, <2>1, <2>2, <2>3
<1>17. \A i \in DOMAIN C :
       /\ root \in Node /\ C[i].node \in Node /\ Depth[root] < Depth[C[i].node]
       /\ \/ C[i].node \in Range1(Inside(root))
          \/ \E j \in DOMAIN T : C[i].node \in Range1(Below(T[j].node, T[j].typ))
  <2>1. SUFFICES ASSUME NEW i \in 1..Len(C)
                 PROVE  /\ C[i].node \in Node /\ Depth[root] < Depth[C[i].node]
                        /\ \/ C[i].node \in Range1(Inside(root))
                           \/ \E j \in DOMAIN T : C[i].node \in Range1(Below(T[j].node, T[j].typ))
    BY <1>4, <1>5
  <2>2. CASE i <= Len(K)
    <3>1. C[i].node = K[i] /\ i \in 1..Len(K)
      BY <1>3, <1>4, <2>1, <2>2
    <3>2. K[i] \in Range1(K) /\ K = Below(T[Len(table) + 1].node, T[Len(table) + 1].typ)
      BY <1>2, <1>3, <3>1 DEF Range1, K
    <3>3. Len(table) + 1 \in DOMAIN T
      BY <1>1, <1>2
    <3>4. Depth[root] < Depth[K[i]] /\ K[i] \in Node
      BY <1>3, <1>5, <1>6, <3>1, TreeAssumption
    <3>5. QED
      BY <3>1, <3>2, <3>3, <3>4
  <2>3. CASE i > Len(K)
    <3>1. PICK k \in 2..Len(calls) : C[i].node = calls[k].node
      BY <1>3, <1>4, <1>12, <2>1, <2>3
    <3>2. /\ calls[k].node \in Node /\ Depth[root] < Depth[calls[k].node]
          /\ \/ calls[k].node \in Range1(Inside(root))
             \/ \E j \in DOMAIN table : calls[k].node \in Range1(Below(table[j].node, table[j].typ))
      BY <1>1 DEF Walked
    <3>3. QED
      BY <1>1, <1>2, <3>1, <3>2
  <2>4. QED
    BY <1>3, <1>4, <2>1, <2>2, <2>3
<1>18. \A n \in Range1(Inside(root)) \cup UNION {Range1(Below(r.node, r.typ)) : r \in Range1(T)} :
       \/ \E i \in DOMAIN T : T[i].node = n
       \/ \E i \in DOMAIN C : C[i].node = n
  <2>1. SUFFICES ASSUME NEW n \in Range1(Inside(root))
                               \cup UNION {Range1(Below(r.node, r.typ)) : r \in Range1(T)}
                 PROVE  \/ \E i \in DOMAIN T : T[i].node = n
                        \/ \E i \in DOMAIN C : C[i].node = n
    OBVIOUS
  <2>2. CASE n \in Range1(K)
    <3>1. PICK i \in 1..Len(K) : n = K[i]
      BY <1>3, <2>2 DEF Range1
    <3>2. i \in 1..Len(C) /\ C[i].node = n
      BY <1>1, <1>3, <1>4, <3>1
    <3>3. QED
      BY <1>4, <3>2
  <2>3. CASE \E i \in DOMAIN table : table[i].node = n
    BY <1>1, <1>2, <2>3
  <2>4. CASE \E i \in DOMAIN calls : calls[i].node = n
    <3>1. PICK k \in 1..Len(calls) : calls[k].node = n
      BY <1>1, <2>4
    <3>2. CASE k = 1
      BY <1>1, <1>2, <3>1, <3>2
    <3>3. CASE k > 1
      <4>1. k + Len(K) - 1 \in 1..Len(C) /\ k + Len(K) - 1 > Len(K)
            /\ (k + Len(K) - 1) - Len(K) + 1 = k
        BY <1>1, <1>3, <1>4, <3>1, <3>3
      <4>2. PICK j \in 1..Len(C) : j > Len(K) /\ j - Len(K) + 1 = k
        BY <4>1
      <4>3. C[j].node = calls[j - Len(K) + 1].node
        BY <1>3, <1>4, <4>2
      <4>4. QED
        BY <1>4, <3>1, <4>2, <4>3
    <3>4. QED
      BY <3>1, <3>2, <3>3
  <2>5. n \in Range1(K) \/ n \in Range1(Inside(root))
                               \cup UNION {Range1(Below(r.node, r.typ)) : r \in Range1(table)}
    BY <1>2 DEF K
  <2>6. QED
    BY <2>2, <2>3, <2>4, <2>5 DEF Walked
<1>19. Walked(root, T, C)
  BY <1>2, <1>4, <1>13, <1>14, <1>15, <1>16, <1>17, <1>18 DEF Walked
<1>20. QED
  BY <1>19 DEF K, T, C

\* The end: with nothing left to call, the table is complete.
LEMMA WalkEnds ==
  ASSUME NEW root, NEW table, Walked(root, table, <<>>)
  PROVE  Once(table) /\ ParentsFirst(root, table) /\ Closed(root, table)
BY DEF Walked, Closed

-----------------------------------------------------------------------------
(***************************************************************************)
(* The run.  TablesComplete and CountsNotAhead need to know what is in the  *)
(* memory of the run that will write the files.                            *)
(***************************************************************************)
ExplainedInputs(a, table) == \A r \in table : <<a.group, r.name>> \in Explained
ExplainedRows(a, table) ==
  \A r \in Range1(table) : r.node = a.root \/ <<a.group, Key[r.node]>> \in Explained

\* Rows with something below them read as objects or arrays.
ShownRows(table) ==
  \A r \in Range1(table) : Below(r.node, r.typ) # <<>> => r.shown \in {"object", "array"}

GoodSection(s) ==
  /\ Once(s.rows) /\ ParentsFirst(s.api.root, s.rows) /\ Closed(s.api.root, s.rows)
  /\ ExplainedInputs(s.api, s.inputs) /\ ExplainedRows(s.api, s.rows)
  /\ ShownRows(s.rows)
GoodStory(sections) == \A s \in Range1(sections) : GoodSection(s)

SectionInvariant ==
  pc = "walk" =>
    /\ Walked(Head(queue).root, rows, todo)
    /\ ExplainedInputs(Head(queue), inputs) /\ ExplainedRows(Head(queue), rows)
    /\ ShownRows(rows)

\* A run works with the classes that the files have; the class whose nulls
\* are shown is among them.
ModelsInvariant ==
  /\ manifest \in Manifests /\ schemas \in AuthClasses
  /\ pc \in {"section", "walk"} => models = Merged /\ "CategoryShare" \in DOMAIN models

StoryInvariant == GoodStory(story) /\ (guide.whole => GoodStory(guide.story))

FilesInvariant ==
  /\ pc \in {"cover", "counts"} => guide.run = run /\ guide.whole /\ guide.story = story
  /\ pc \in {"section", "walk", "guide", "cover"} => cover.run < run
  /\ pc = "counts" => ~cover.whole
  /\ CountsNotAhead

GuideInvariant ==
  TypeOK /\ ModelsInvariant /\ SectionInvariant /\ StoryInvariant /\ FilesInvariant

LEMMA EmptyTable == IsSeq(<<>>) /\ Range1(<<>>) = {}
BY DEF IsSeq, Range1

LEMMA ModelsStep == ASSUME ModelsInvariant, [Next]_vars PROVE ModelsInvariant'
<1>1. CASE Edit
  BY <1>1 DEF ModelsInvariant, Edit, memory, Idle
<1>2. CASE Load
  <2>1. DOMAIN models' = DOMAIN schemas \cup DOMAIN manifest.models
    BY <1>2 DEF Load, Merged, Overriding
  <2>2. "CategoryShare" \in DOMAIN models'
    BY <2>1, ShapeAssumption DEF ModelsInvariant
  <2>3. QED
    BY <1>2, <2>2 DEF ModelsInvariant, Load, Merged, inputFiles
<1>3. CASE OpenSection \/ Document \/ CloseSection
  <2>1. UNCHANGED <<manifest, schemas, models>> /\ pc \in {"section", "walk"}
    BY <1>3 DEF OpenSection, Document, CloseSection, inputFiles
  <2>2. QED
    BY <2>1 DEF ModelsInvariant, Merged
<1>4. CASE Fail \/ Crash \/ SaveCover \/ OpenGuide \/ SaveGuide \/ OpenCover
  <2>1. UNCHANGED <<manifest, schemas>> /\ pc' \in {"idle", "guide", "cover", "counts"}
    BY <1>4 DEF Fail, Crash, SaveCover, OpenGuide, SaveGuide, OpenCover, Forget, Idle, inputFiles
  <2>2. QED
    BY <2>1 DEF ModelsInvariant
<1>5. CASE Done \/ UNCHANGED vars
  BY <1>5 DEF ModelsInvariant, Merged, Done, vars, inputFiles, memory
<1>6. QED
  BY <1>1, <1>2, <1>3, <1>4, <1>5 DEF Next

\* A type that walk() goes below, and so does the type column.
LEMMA ShownAsOpened ==
  ASSUME NEW n, NEW typ, Below(n, typ) # <<>>, "CategoryShare" \in DOMAIN models
  PROVE  Shown(n, typ) \in {"object", "array"}
<1>1. n \in Node /\ Inside(n) # <<>>
  BY InsideNodes DEF Below
<1>2. Kind[n] \in {"dict", "list", "null"}
  BY <1>1, ShapeAssumption
<1>3. CASE Kind[n] = "null"
  <2>1. typ.of = "CategoryShare"
    BY <1>1, <1>3 DEF Below
  <2>2. typ.of \in DOMAIN models
    BY <2>1
  <2>3. QED
    BY <2>2 DEF Shown
<1>4. CASE Kind[n] \in {"dict", "list"}
  BY <1>4 DEF Shown
<1>5. QED
  BY <1>2, <1>3, <1>4

LEMMA InitInvariant == Init => GuideInvariant
<1>1. SUFFICES ASSUME Init PROVE GuideInvariant
  OBVIOUS
<1>2. TypeOK
  BY <1>1, EmptyTable, TreeAssumption DEF Init, TypeOK, Idle, NoFile, IsSeq
<1>3. SectionInvariant
  BY <1>1 DEF Init, SectionInvariant, Idle
<1>4. StoryInvariant
  BY <1>1, EmptyTable DEF Init, StoryInvariant, GoodStory, NoFile
<1>5. FilesInvariant
  BY <1>1 DEF Init, FilesInvariant, CountsNotAhead, Idle, NoFile
<1>6. ModelsInvariant
  BY <1>1 DEF Init, ModelsInvariant, Idle
<1>7. QED
  BY <1>2, <1>3, <1>4, <1>5, <1>6 DEF GuideInvariant

\* A run that ends, in whatever way, forgets its memory; the guide stays.
LEMMA Forgets ==
  ASSUME GuideInvariant, ModelsInvariant', Forget, UNCHANGED <<edits, run, guide>>,
         \/ UNCHANGED cover
         \/ pc = "counts" /\ cover' = [run |-> run, whole |-> TRUE,
                                       counts |-> [i \in DOMAIN story |-> Count(story[i])]]
  PROVE  GuideInvariant'
<1>1. /\ pc' = "idle" /\ todo' = <<>> /\ inputs' = {} /\ rows' = <<>> /\ story' = <<>>
      /\ guide' = guide /\ run' = run /\ edits' = edits
  BY DEF Forget, Idle
<1>2. TypeOK
  BY DEF GuideInvariant
<1>3. cover'.run \in 0..run /\ cover'.whole \in BOOLEAN
  <2>1. run \in Nat /\ run \in 0..run
    BY <1>2, TreeAssumption DEF TypeOK
  <2>2. CASE UNCHANGED cover
    BY <1>2, <2>2 DEF TypeOK
  <2>3. CASE cover' = [run |-> run, whole |-> TRUE,
                       counts |-> [i \in DOMAIN story |-> Count(story[i])]]
    <3>1. cover'.run = run /\ cover'.whole = TRUE
      BY <2>3
    <3>2. QED
      BY <2>1, <3>1
  <2>4. QED
    BY <2>2, <2>3
<1>4. TypeOK'
  BY <1>1, <1>2, <1>3, EmptyTable DEF TypeOK, Idle, IsSeq
<1>5. SectionInvariant' /\ StoryInvariant'
  BY <1>1, EmptyTable DEF GuideInvariant, SectionInvariant, StoryInvariant, GoodStory
<1>6. CountsNotAhead'
  <2>1. CASE UNCHANGED cover
    BY <1>1, <2>1 DEF GuideInvariant, FilesInvariant, CountsNotAhead
  <2>2. CASE pc = "counts" /\ cover' = [run |-> run, whole |-> TRUE,
                                        counts |-> [i \in DOMAIN story |-> Count(story[i])]]
    <3>1. guide.run = run /\ guide.whole /\ guide.story = story
      BY <2>2 DEF GuideInvariant, FilesInvariant
    <3>2. cover'.run = run /\ cover'.counts = [i \in DOMAIN story |-> Count(story[i])] /\ run \in Nat
      BY <1>2, <2>2, TreeAssumption DEF TypeOK
    <3>3. QED
      BY <1>1, <3>1, <3>2 DEF CountsNotAhead, Count
  <2>3. QED
    BY <2>1, <2>2
<1>7. FilesInvariant'
  BY <1>1, <1>6 DEF FilesInvariant
<1>8. QED
  BY <1>4, <1>5, <1>7 DEF GuideInvariant

LEMMA LoadStep ==
  ASSUME GuideInvariant, Edit \/ Load, ModelsInvariant'
  PROVE  GuideInvariant'
<1>1. UNCHANGED <<todo, inputs, rows, story, guide, cover>> /\ pc = "idle" /\ pc' \in {"idle", "section"}
      /\ (pc' = "idle" => run' = run) /\ (pc' = "section" => run' = run + 1)
  BY DEF Edit, Load, memory, outputFiles, inputFiles, Idle
<1>2. TypeOK
  BY DEF GuideInvariant
<1>3. run \in Nat /\ run' \in 0..MaxRuns /\ run <= run' /\ edits' \in 0..MaxEdits
  BY <1>2, TreeAssumption DEF TypeOK, Edit, Load, inputFiles
<1>4. TypeOK'
  <2>1. guide.run \in 0..run /\ cover.run \in 0..run
    BY <1>2 DEF TypeOK
  <2>2. guide.run \in 0..run' /\ cover.run \in 0..run'
    BY <1>3, <2>1
  <2>3. QED
    BY <1>1, <1>2, <1>3, <2>2 DEF TypeOK, Idle
<1>5. SectionInvariant' /\ StoryInvariant'
  BY <1>1 DEF GuideInvariant, SectionInvariant, StoryInvariant, GoodStory
<1>6. FilesInvariant'
  <2>1. cover.run \in 0..run
    BY <1>2 DEF TypeOK
  <2>2. CountsNotAhead'
    BY <1>1 DEF GuideInvariant, FilesInvariant, CountsNotAhead
  <2>3. pc' = "section" => cover'.run < run'
    BY <1>1, <1>3, <2>1
  <2>4. QED
    BY <1>1, <2>2, <2>3 DEF FilesInvariant
<1>7. QED
  BY <1>4, <1>5, <1>6 DEF GuideInvariant

LEMMA OpenSectionStep ==
  ASSUME GuideInvariant, OpenSection, ModelsInvariant'
  PROVE  GuideInvariant'
<1> DEFINE a == Head(queue)
<1>1. /\ pc = "section" /\ pc' = "walk"
      /\ UNCHANGED <<edits, run, queue, story, guide, cover>>
      /\ inputs' = RequestRows(a) /\ \A r \in RequestRows(a) : HasMeaning(a, r.name)
      /\ todo' = Calls(Inside(a.root), SchemaFor(a), FALSE)
      /\ \/ rows' = <<>>
         \/ rows' = <<[node |-> a.root, typ |-> NoType, shown |-> "array", null |-> FALSE, maybe |-> FALSE]>>
  BY DEF OpenSection, inputFiles, outputFiles
<1> HIDE DEF a
<1>2. TypeOK
  BY DEF GuideInvariant
<1>3. PICK schema, maybe : todo' = Calls(Inside(a.root), schema, maybe)
  BY <1>1
<1>4. rows' = <<>> \/ \E r : rows' = <<r>> /\ r.node = a.root
  BY <1>1
<1>5. Walked(a.root, rows', todo')
  <2>1. PICK root, table : root = a.root /\ table = rows'
    OBVIOUS
  <2>2. Walked(root, table, Calls(Inside(root), schema, maybe))
    BY <1>4, <2>1, WalkBegins
  <2>3. QED
    BY <1>3, <2>1, <2>2
<1>6. a' = a
  BY <1>1 DEF a
<1>7. \A r \in Range1(rows') : r.node = a.root
  <2>1. CASE rows' = <<>>
    BY <2>1, EmptyTable
  <2>2. CASE \E r : rows' = <<r>> /\ r.node = a.root
    BY <2>2 DEF Range1
  <2>3. QED
    BY <1>4, <2>1, <2>2
<1>8. ShownRows(rows')
  <2>1. CASE rows' = <<>>
    BY <2>1, EmptyTable DEF ShownRows
  <2>2. CASE \E r : rows' = <<r>> /\ r.shown = "array"
    BY <2>2 DEF Range1, ShownRows
  <2>3. QED
    BY <1>1, <2>1, <2>2
<1>9. SectionInvariant'
  BY <1>1, <1>5, <1>6, <1>7, <1>8
     DEF SectionInvariant, ExplainedInputs, ExplainedRows, ShownRows, HasMeaning, a
<1>10. TypeOK'
  <2>1. IsSeq(rows') /\ IsSeq(todo')
    BY <1>5 DEF Walked
  <2>2. QED
    BY <1>1, <1>2, <2>1 DEF TypeOK, IsSeq, Idle
<1>11. StoryInvariant'
  BY <1>1 DEF GuideInvariant, StoryInvariant, GoodStory
<1>12. FilesInvariant'
  BY <1>1 DEF GuideInvariant, FilesInvariant, CountsNotAhead
<1>13. QED
  BY <1>9, <1>10, <1>11, <1>12 DEF GuideInvariant

LEMMA DocumentStep ==
  ASSUME GuideInvariant, Document, ModelsInvariant'
  PROVE  GuideInvariant'
<1> DEFINE a == Head(queue)
           n == Head(todo).node
<1>1. /\ pc = "walk" /\ pc' = "walk" /\ todo # <<>>
      /\ UNCHANGED <<edits, run, queue, inputs, story, guide, cover>>
      /\ <<a.group, Key[n]>> \in Explained
  BY DEF Document, inputFiles, outputFiles, HasMeaning
<1>2. PICK row, schema, maybe :
        /\ row.node = n /\ row.shown = Shown(n, row.typ)
        /\ rows' = Append(rows, row)
        /\ todo' = Calls(Below(row.node, row.typ), schema, maybe) \o Tail(todo)
  <2> DEFINE f == Head(todo)
             typ == TypeOf(a, f.schema, f.node)
             r == [node |-> f.node, typ |-> typ, maybe |-> f.maybe,
                   shown |-> Shown(f.node, typ),
                   null |-> typ.null \/ Kind[f.node] = "null"]
  <2>1. rows' = Append(rows, r) /\ todo' = Following(f, typ) /\ r.node = f.node /\ r.typ = typ
        /\ r.shown = Shown(f.node, typ)
    BY DEF Document
  <2>2. PICK maybe : maybe = (f.maybe \/ Kind[f.node] = "null")
    OBVIOUS
  <2>3. todo' = Calls(Below(r.node, r.typ), FieldsOf(models, typ.of), maybe) \o Tail(todo)
    BY <2>1, <2>2 DEF Following
  <2>4. QED
    BY <2>1, <2>3
<1>3. /\ TypeOK /\ Walked(a.root, rows, todo) /\ ExplainedInputs(a, inputs) /\ ExplainedRows(a, rows)
      /\ ShownRows(rows) /\ "CategoryShare" \in DOMAIN models
  BY <1>1 DEF GuideInvariant, SectionInvariant, ModelsInvariant
<1>4. a' = a
  BY <1>1
<1> HIDE DEF a, n
<1>5. Walked(a.root, rows', todo')
  <2>1. PICK root, table, calls : root = a.root /\ table = rows /\ calls = todo
    OBVIOUS
  <2>2. Walked(root, table, calls) /\ calls # <<>> /\ row.node = Head(calls).node
    BY <1>1, <1>2, <1>3, <2>1 DEF n
  <2>3. Walked(root, Append(table, row), Calls(Below(row.node, row.typ), schema, maybe) \o Tail(calls))
    BY <2>2, WalkGoesOn
  <2>4. QED
    BY <1>2, <2>1, <2>3
<1>6. Range1(rows') = Range1(rows) \cup {row}
  <2>1. IsSeq(rows)
    BY <1>3 DEF Walked
  <2>2. QED
    BY <1>2, <2>1, Appended
<1>7. ExplainedRows(a, rows')
  BY <1>1, <1>2, <1>3, <1>6 DEF ExplainedRows
<1>8. ShownRows(rows')
  BY <1>2, <1>3, <1>6, ShownAsOpened DEF ShownRows
<1>9. SectionInvariant'
  BY <1>1, <1>3, <1>4, <1>5, <1>7, <1>8
     DEF SectionInvariant, ExplainedInputs, ExplainedRows, ShownRows, a
<1>10. TypeOK'
  <2>1. IsSeq(rows') /\ IsSeq(todo')
    BY <1>5 DEF Walked
  <2>2. QED
    BY <1>1, <1>3, <2>1 DEF TypeOK, IsSeq, Idle
<1>11. StoryInvariant'
  BY <1>1 DEF GuideInvariant, StoryInvariant, GoodStory
<1>12. FilesInvariant'
  BY <1>1 DEF GuideInvariant, FilesInvariant, CountsNotAhead
<1>13. QED
  BY <1>9, <1>10, <1>11, <1>12 DEF GuideInvariant

LEMMA CloseSectionStep ==
  ASSUME GuideInvariant, CloseSection, ModelsInvariant'
  PROVE  GuideInvariant'
<1>1. /\ pc = "walk" /\ pc' = "section" /\ todo = <<>> /\ todo' = <<>>
      /\ inputs' = {} /\ rows' = <<>>
      /\ UNCHANGED <<edits, run, guide, cover>>
  BY DEF CloseSection, inputFiles, outputFiles
<1>2. PICK s : /\ s.api = Head(queue) /\ s.inputs = inputs /\ s.rows = rows
               /\ story' = Append(story, s)
  BY DEF CloseSection
<1>3. /\ TypeOK /\ Walked(Head(queue).root, rows, todo) /\ GoodStory(story)
      /\ ExplainedInputs(Head(queue), inputs) /\ ExplainedRows(Head(queue), rows)
      /\ ShownRows(rows)
  BY <1>1 DEF GuideInvariant, SectionInvariant, StoryInvariant
<1>4. Once(rows) /\ ParentsFirst(Head(queue).root, rows) /\ Closed(Head(queue).root, rows)
  BY <1>1, <1>3, WalkEnds
<1>5. GoodSection(s)
  BY <1>2, <1>3, <1>4 DEF GoodSection
<1>6. IsSeq(story') /\ Range1(story') = Range1(story) \cup {s}
  <2>1. IsSeq(story)
    BY <1>3 DEF TypeOK, IsSeq
  <2>2. QED
    BY <1>2, <2>1, Appended
<1>7. StoryInvariant'
  <2>1. GoodStory(story')
    BY <1>3, <1>5, <1>6 DEF GoodStory
  <2>2. QED
    BY <1>1, <2>1 DEF GuideInvariant, StoryInvariant, GoodStory
<1>8. TypeOK'
  BY <1>1, <1>3, <1>6, EmptyTable DEF TypeOK, IsSeq, Idle
<1>9. SectionInvariant'
  BY <1>1 DEF SectionInvariant
<1>10. FilesInvariant'
  BY <1>1 DEF GuideInvariant, FilesInvariant, CountsNotAhead
<1>11. QED
  BY <1>7, <1>8, <1>9, <1>10 DEF GuideInvariant

LEMMA WriteStep ==
  ASSUME GuideInvariant, OpenGuide \/ SaveGuide \/ OpenCover, ModelsInvariant'
  PROVE  GuideInvariant'
<1>1. /\ UNCHANGED <<edits, run, todo, inputs, rows, story>>
      /\ pc \in {"section", "guide", "cover"} /\ pc' \in {"guide", "cover", "counts"}
  BY DEF OpenGuide, SaveGuide, OpenCover, inputFiles, memory
<1>2. TypeOK /\ StoryInvariant /\ FilesInvariant
  BY DEF GuideInvariant
<1>3. run \in Nat /\ cover.run \in 0..run /\ guide.run \in 0..run
  BY <1>2, TreeAssumption DEF TypeOK
<1>4. SectionInvariant'
  BY <1>1 DEF SectionInvariant
<1>5. CASE OpenGuide
  <2>1. guide' = [run |-> run, whole |-> FALSE] /\ cover' = cover /\ pc = "section" /\ pc' = "guide"
    BY <1>5 DEF OpenGuide
  <2>2. guide'.run = run /\ guide'.whole = FALSE /\ cover.run < run
    BY <1>2, <2>1 DEF FilesInvariant
  <2>3. TypeOK'
    BY <1>1, <1>2, <1>3, <2>1, <2>2 DEF TypeOK, Idle
  <2>4. StoryInvariant'
    BY <1>1, <1>2, <2>2 DEF StoryInvariant, GoodStory
  <2>5. FilesInvariant'
    BY <1>1, <1>3, <2>1, <2>2 DEF FilesInvariant, CountsNotAhead
  <2>6. QED
    BY <1>4, <2>3, <2>4, <2>5 DEF GuideInvariant
<1>6. CASE SaveGuide
  <2>1. /\ guide' = [run |-> run, whole |-> TRUE, index |-> index, story |-> story]
        /\ cover' = cover /\ pc = "guide" /\ pc' = "cover"
    BY <1>6 DEF SaveGuide
  <2>2. guide'.run = run /\ guide'.whole = TRUE /\ guide'.story = story /\ cover.run < run
    BY <1>2, <2>1 DEF FilesInvariant
  <2>3. TypeOK'
    BY <1>1, <1>2, <1>3, <2>1, <2>2 DEF TypeOK, Idle
  <2>4. StoryInvariant'
    BY <1>1, <1>2, <2>2 DEF StoryInvariant, GoodStory
  <2>5. FilesInvariant'
    BY <1>1, <1>3, <2>1, <2>2 DEF FilesInvariant, CountsNotAhead
  <2>6. QED
    BY <1>4, <2>3, <2>4, <2>5 DEF GuideInvariant
<1>7. CASE OpenCover
  <2>1. cover' = [run |-> run, whole |-> FALSE] /\ guide' = guide /\ pc = "cover" /\ pc' = "counts"
    BY <1>7 DEF OpenCover
  <2>2. cover'.run = run /\ cover'.whole = FALSE /\ guide.run = run /\ guide.whole /\ guide.story = story
    BY <1>2, <2>1 DEF FilesInvariant
  <2>3. TypeOK'
    BY <1>1, <1>2, <1>3, <2>1, <2>2 DEF TypeOK, Idle
  <2>4. StoryInvariant'
    BY <1>1, <1>2, <2>1 DEF StoryInvariant, GoodStory
  <2>5. FilesInvariant'
    BY <1>1, <1>3, <2>1, <2>2 DEF FilesInvariant, CountsNotAhead
  <2>6. QED
    BY <1>4, <2>3, <2>4, <2>5 DEF GuideInvariant
<1>8. QED
  BY <1>5, <1>6, <1>7

LEMMA StutterStep ==
  ASSUME GuideInvariant, UNCHANGED vars, ModelsInvariant'
  PROVE  GuideInvariant'
<1>1. UNCHANGED <<edits, pc, queue, todo, inputs, rows, story, guide, cover, run>>
  BY DEF vars, inputFiles, memory, outputFiles
<1>2. TypeOK'
  BY <1>1 DEF GuideInvariant, TypeOK
<1>3. SectionInvariant'
  BY <1>1 DEF GuideInvariant, SectionInvariant, Walked, ExplainedInputs, ExplainedRows, ShownRows
<1>4. StoryInvariant'
  BY <1>1 DEF GuideInvariant, StoryInvariant, GoodStory
<1>5. FilesInvariant'
  BY <1>1 DEF GuideInvariant, FilesInvariant, CountsNotAhead
<1>6. QED
  BY <1>2, <1>3, <1>4, <1>5 DEF GuideInvariant

LEMMA NextStep == GuideInvariant /\ [Next]_vars => GuideInvariant'
<1>0. SUFFICES ASSUME GuideInvariant, [Next]_vars PROVE GuideInvariant'
  OBVIOUS
<1>1. GuideInvariant /\ [Next]_vars /\ ModelsInvariant'
  BY <1>0, ModelsStep DEF GuideInvariant
<1>2. CASE Edit \/ Load
  BY <1>1, <1>2, LoadStep
<1>3. CASE OpenSection
  BY <1>1, <1>3, OpenSectionStep
<1>4. CASE Document
  BY <1>1, <1>4, DocumentStep
<1>5. CASE CloseSection
  BY <1>1, <1>5, CloseSectionStep
<1>6. CASE Fail \/ Crash
  <2>1. Forget /\ UNCHANGED <<edits, run, guide, cover>>
    BY <1>6 DEF Fail, Crash, inputFiles, outputFiles
  <2>2. QED
    BY <1>1, <2>1, Forgets
<1>7. CASE OpenGuide \/ SaveGuide \/ OpenCover
  BY <1>1, <1>7, WriteStep
<1>8. CASE SaveCover
  <2>1. /\ Forget /\ UNCHANGED <<edits, run, guide>> /\ pc = "counts"
        /\ cover' = [run |-> run, whole |-> TRUE,
                     counts |-> [i \in DOMAIN story |-> Count(story[i])]]
    BY <1>8 DEF SaveCover, inputFiles
  <2>2. QED
    BY <1>1, <2>1, Forgets
<1>9. CASE Done \/ UNCHANGED vars
  BY <1>1, <1>9, StutterStep DEF Done
<1>10. QED
  BY <1>1, <1>2, <1>3, <1>4, <1>5, <1>6, <1>7, <1>8, <1>9 DEF Next

LEMMA InvariantHolds == Spec => []GuideInvariant
BY InitInvariant, NextStep, PTL DEF Spec

\* The variables that steer a run of build_api_guide.py keep their types, and
\* no table is left over from the section before.
THEOREM GuideTypes == Spec => []TypeOK
<1>1. GuideInvariant => TypeOK
  BY DEF GuideInvariant
<1>2. QED
  BY <1>1, InvariantHolds, PTL

\* Whatever examples the manifest holds: every field of an example has exactly
\* one row in the guide that is saved, after the row of the object it is in.
THEOREM GuideTablesComplete == Spec => []TablesComplete
<1>1. GuideInvariant => TablesComplete
  BY DEF GuideInvariant, StoryInvariant, GoodStory, GoodSection, TablesComplete
<1>2. QED
  BY <1>1, InvariantHolds, PTL

\* A row with rows below it reads as an object or an array.
THEOREM GuideParentsShown == Spec => []ParentsShown
<1>1. ASSUME GuideInvariant, guide.whole, NEW s \in Range1(guide.story),
             NEW above \in Range1(s.rows), NEW n \in Range1(Below(above.node, above.typ))
      PROVE  above.shown \in {"object", "array"}
  <2>1. ShownRows(s.rows)
    BY <1>1 DEF GuideInvariant, StoryInvariant, GoodStory, GoodSection
  <2>2. Below(above.node, above.typ) # <<>>
    BY <1>1, EmptyTable
  <2>3. QED
    BY <2>1, <2>2 DEF ShownRows
<1>2. GuideInvariant => ParentsShown
  BY <1>1 DEF ParentsShown
<1>3. QED
  BY <1>2, InvariantHolds, PTL

\* meaning() stops the run before a field without a text gets into the guide.
THEOREM GuideExplained == Spec => []NothingUnexplained
<1>1. GuideInvariant => NothingUnexplained
  BY DEF GuideInvariant, StoryInvariant, GoodStory, GoodSection, NothingUnexplained,
         ExplainedInputs, ExplainedRows
<1>2. QED
  BY <1>1, InvariantHolds, PTL

\* The guide is written before its counts, however often runs are stopped.
THEOREM GuideCounts == Spec => []CountsNotAhead
<1>1. GuideInvariant => CountsNotAhead
  BY DEF GuideInvariant, FilesInvariant
<1>2. QED
  BY <1>1, InvariantHolds, PTL

-----------------------------------------------------------------------------
(***************************************************************************)
(* The fields of a class.  The recursion over its bases comes to an end,   *)
(* so fields() has a value, and the type that TypesDeclared looks up from   *)
(* class to class is the one fields() finds.                               *)
(***************************************************************************)
\* Solutions on some classes and all above them agree where both are defined
\* (the least class on which they do not has a base on which they do), every
\* class has one, and together they are a solution on all classes.
LEMMA FieldsExist ==
  ASSUME NEW ms, Grounded(ms)
  PROVE  \E f : f = [c \in DOMAIN ms |->
                       Overriding(ms[c].own, IF ms[c].base \in DOMAIN ms THEN f[ms[c].base] ELSE <<>>)]
<1> DEFINE S == DOMAIN ms
           Value(h, c) == Overriding(ms[c].own, IF ms[c].base \in S THEN h[ms[c].base] ELSE <<>>)
           Solves(D, h) == /\ D \in SUBSET S
                           /\ \A c \in D : ms[c].base \in S => ms[c].base \in D
                           /\ \A c \in D : h[c] = Value(h, c)
           f == [c \in S |-> CHOOSE v : \E D, h : Solves(D, h) /\ c \in D /\ v = h[c]]
<1>1. \A c : \A h, k : (ms[c].base \in S => h[ms[c].base] = k[ms[c].base]) => Value(h, c) = Value(k, c)
  OBVIOUS
<1>2. \A C \in SUBSET S : C # {} => \E c \in C : ms[c].base \notin C
  BY DEF Grounded
<1> HIDE DEF Value, S
<1>3. ASSUME NEW D, NEW h, NEW E, NEW k, Solves(D, h), Solves(E, k)
      PROVE  \A c \in D \cap E : h[c] = k[c]
  <2> DEFINE C == {c \in D \cap E : h[c] # k[c]}
  <2>1. SUFFICES ASSUME C # {} PROVE FALSE
    OBVIOUS
  <2>2. PICK c \in C : ms[c].base \notin C
    BY <1>2, <1>3, <2>1
  <2>3. ms[c].base \in S => h[ms[c].base] = k[ms[c].base]
    BY <1>3, <2>2
  <2> QED BY <1>1, <1>3, <2>2, <2>3
<1>4. \A c \in S : \E D, h : Solves(D, h) /\ c \in D
  <2> DEFINE C == {c \in S : ~\E D, h : Solves(D, h) /\ c \in D}
  <2>1. SUFFICES ASSUME C # {} PROVE FALSE
    OBVIOUS
  <2>2. PICK c \in C : ms[c].base \notin C
    BY <1>2, <2>1
  <2>3. PICK D, h : Solves(D, h) /\ (ms[c].base \in S => ms[c].base \in D)
    <3>1. CASE ms[c].base \in S
      BY <2>2, <3>1
    <3>2. CASE ms[c].base \notin S
      <4>1. Solves({}, <<>>)
        OBVIOUS
      <4> HIDE DEF Solves
      <4> QED BY <3>2, <4>1
    <3> QED BY <3>1, <3>2
  <2>4. c \in S /\ c \notin D
    BY <2>2, <2>3
  <2> DEFINE g == [x \in D \cup {c} |-> IF x = c THEN Value(h, c) ELSE h[x]]
  <2>5. \A x \in D : g[x] = h[x]
    BY <2>4
  <2>6. g[c] = Value(h, c)
    OBVIOUS
  <2> HIDE DEF g
  <2>7. \A x \in D \cup {c} : Value(g, x) = Value(h, x)
    BY <1>1, <2>3, <2>5
  <2>8. Solves(D \cup {c}, g)
    BY <2>3, <2>4, <2>5, <2>6, <2>7
  <2> HIDE DEF Solves
  <2> QED BY <2>2, <2>8
<1>5. \A D, h : Solves(D, h) => \A c \in D : f[c] = h[c]
  <2> SUFFICES ASSUME NEW D, NEW h, Solves(D, h), NEW c \in D PROVE f[c] = h[c]
    OBVIOUS
  <2>1. c \in S /\ f[c] = CHOOSE v : \E D1, h1 : Solves(D1, h1) /\ c \in D1 /\ v = h1[c]
    OBVIOUS
  <2> HIDE DEF f, Solves
  <2>2. \E v : \E D1, h1 : Solves(D1, h1) /\ c \in D1 /\ v = h1[c]
    OBVIOUS
  <2>3. \E D1, h1 : Solves(D1, h1) /\ c \in D1 /\ f[c] = h1[c]
    BY <2>1, <2>2
  <2> QED BY <1>3, <2>3
<1>6. \A c \in S : f[c] = Value(f, c)
  <2> SUFFICES ASSUME NEW c \in S PROVE f[c] = Value(f, c)
    OBVIOUS
  <2>1. PICK D, h : Solves(D, h) /\ c \in D
    BY <1>4
  <2>2. ms[c].base \in S => ms[c].base \in D
    BY <2>1
  <2>3. h[c] = Value(h, c)
    BY <2>1
  <2> HIDE DEF Solves, f
  <2>4. f[c] = h[c] /\ (ms[c].base \in S => f[ms[c].base] = h[ms[c].base])
    BY <1>5, <2>1, <2>2
  <2> QED BY <1>1, <2>3, <2>4
<1>7. f = [c \in S |-> Value(f, c)]
  BY <1>6
<1> HIDE DEF f
<1> QED BY <1>7 DEF S, Value

LEMMA FieldsEquation ==
  ASSUME NEW ms, Grounded(ms), NEW c \in DOMAIN ms
  PROVE  FieldsOf(ms, c) =
           Overriding(ms[c].own, IF ms[c].base \in DOMAIN ms THEN FieldsOf(ms, ms[c].base) ELSE <<>>)
<1> DEFINE Solution(f) == f = [d \in DOMAIN ms |->
      Overriding(ms[d].own, IF ms[d].base \in DOMAIN ms THEN f[ms[d].base] ELSE <<>>)]
           g == CHOOSE f : Solution(f)
<1>1. \E f : Solution(f)
  BY FieldsExist
<1>2. \A d \in DOMAIN ms : FieldsOf(ms, d) = g[d]
  BY DEF FieldsOf
<1>3. Solution(g)
  <2> HIDE DEF Solution
  <2> QED BY <1>1
<1> HIDE DEF g
<1>4. g[c] = Overriding(ms[c].own, IF ms[c].base \in DOMAIN ms THEN g[ms[c].base] ELSE <<>>)
  BY <1>3
<1> QED BY <1>2, <1>4

\* The declared type of a key is the one that the fields of a class have.
LEMMA DeclaredFields ==
  ASSUME NEW class, NEW key, Grounded(Overriding(schemas, manifest.models))
  PROVE  Declared(class, key) =
           LET fields == FieldsOf(Overriding(schemas, manifest.models), class)
           IN IF key \in DOMAIN fields THEN {fields[key]} ELSE {}
<1> DEFINE ms == Overriding(schemas, manifest.models)
           now(c) == IF c \in DOMAIN schemas THEN schemas[c] ELSE manifest.models[c]
           known == DOMAIN schemas \cup DOMAIN manifest.models
           Solution(f) == f = [c \in known |->
             IF key \in DOMAIN now(c).own THEN {now(c).own[key]}
             ELSE IF now(c).base \in known THEN f[now(c).base] ELSE {}]
           g == CHOOSE f : Solution(f)
           h == [c \in known |-> LET fields == FieldsOf(ms, c)
                                 IN IF key \in DOMAIN fields THEN {fields[key]} ELSE {}]
<1>1. DOMAIN ms = known /\ \A c \in known : ms[c] = now(c)
  BY DEF Overriding
<1>2. Declared(class, key) = IF class \in known THEN g[class] ELSE {}
  BY DEF Declared
<1>3. class \notin known => FieldsOf(ms, class) = <<>>
  BY <1>1 DEF FieldsOf
<1>4. Grounded(ms)
  OBVIOUS
<1> HIDE DEF ms, known, now
<1>5. ASSUME NEW c \in known
      PROVE  FieldsOf(ms, c) = Overriding(now(c).own, IF now(c).base \in known THEN FieldsOf(ms, now(c).base) ELSE <<>>)
  BY <1>1, <1>4, FieldsEquation
<1>6. ASSUME NEW c \in known
      PROVE  h[c] = IF key \in DOMAIN now(c).own THEN {now(c).own[key]}
                    ELSE IF now(c).base \in known THEN h[now(c).base] ELSE {}
  <2> DEFINE own == now(c).own
             up == IF now(c).base \in known THEN FieldsOf(ms, now(c).base) ELSE <<>>
             fields == FieldsOf(ms, c)
  <2>1. fields = Overriding(own, up)
    BY <1>5
  <2>2. h[c] = IF key \in DOMAIN fields THEN {fields[key]} ELSE {}
    OBVIOUS
  <2>3. now(c).base \in known => h[now(c).base] = IF key \in DOMAIN up THEN {up[key]} ELSE {}
    OBVIOUS
  <2>4. now(c).base \notin known => key \notin DOMAIN up
    OBVIOUS
  <2> HIDE DEF fields, own, up, h
  <2>5. /\ DOMAIN fields = DOMAIN own \cup DOMAIN up
        /\ key \in DOMAIN own => fields[key] = own[key]
        /\ key \in DOMAIN up \ DOMAIN own => fields[key] = up[key]
    BY <2>1 DEF Overriding
  <2>6. h[c] = IF key \in DOMAIN own THEN {own[key]}
               ELSE IF now(c).base \in known THEN h[now(c).base] ELSE {}
    BY <2>2, <2>3, <2>4, <2>5
  <2> QED BY <2>6 DEF own
<1>7. Solution(h)
  BY <1>6
<1>8. Solution(g)
  <2> HIDE DEF Solution
  <2> QED BY <1>7
<1> HIDE DEF g, h
<1>9. \A c \in known : g[c] = h[c]
  <2> DEFINE C == {c \in known : g[c] # h[c]}
  <2>1. SUFFICES ASSUME C # {} PROVE FALSE
    OBVIOUS
  <2>2. PICK c \in C : now(c).base \notin C
    BY <1>1, <1>4, <2>1 DEF Grounded
  <2>3. now(c).base \in known => g[now(c).base] = h[now(c).base]
    BY <2>2
  <2>4. g[c] = IF key \in DOMAIN now(c).own THEN {now(c).own[key]}
               ELSE IF now(c).base \in known THEN g[now(c).base] ELSE {}
    BY <1>8, <2>2
  <2> QED BY <1>6, <2>2, <2>3, <2>4
<1>10. class \in known => h[class] = IF key \in DOMAIN FieldsOf(ms, class) THEN {FieldsOf(ms, class)[key]} ELSE {}
  BY DEF h
<1>11. class \notin known => key \notin DOMAIN FieldsOf(ms, class)
  BY <1>3
<1> QED BY <1>2, <1>9, <1>10, <1>11 DEF ms

-----------------------------------------------------------------------------
(***************************************************************************)
(* The types in the tables.                                                *)
(***************************************************************************)
\* What is below the field that walk() comes to next, it has not met yet.
LEMMA Unmet ==
  ASSUME NEW root, NEW table, NEW calls, Walked(root, table, calls), calls # <<>>,
         NEW n, n = Head(calls).node, NEW m \in Range1(Inside(n))
  PROVE  /\ m \notin Range1(Inside(root)) /\ m # root /\ m # n
         /\ \A r \in Range1(table) : r.node # m /\ m \notin Range1(Inside(r.node))
         /\ \A g \in Range1(calls) : g.node # m
<1>1. /\ DOMAIN calls = 1..Len(calls) /\ Len(calls) \in Nat /\ 1 \in DOMAIN calls /\ n = calls[1].node
      /\ DOMAIN table = 1..Len(table) /\ Len(table) \in Nat
  BY SeqFacts DEF Walked
<1>2. root \in Node /\ n \in Node /\ Depth[root] < Depth[n]
  BY <1>1 DEF Walked
<1>3. n # root /\ \A j \in DOMAIN table : table[j].node # n
  BY <1>1, <1>2, DepthNat DEF Walked
<1>4. m \in Node /\ Depth[n] < Depth[m] /\ \A p : m \in Range1(Inside(p)) => p = n
  BY Tree DEF Range1
<1>5. m # root /\ m # n
  BY <1>2, <1>4, DepthNat
<1>6. m \notin Range1(Inside(root)) /\ \A j \in DOMAIN table : m \notin Range1(Inside(table[j].node))
  BY <1>3, <1>4
<1>7. \A p, typ : Range1(Below(p, typ)) \subseteq Range1(Inside(p))
  BY BelowNodes DEF Range1
<1>8. \A i \in DOMAIN table : table[i].node # m
  BY <1>1, <1>5, <1>6, <1>7 DEF Walked, ParentsFirst
<1>9. \A i \in DOMAIN calls : calls[i].node # m
  BY <1>6, <1>7 DEF Walked
<1>10. \A r \in Range1(table) : r.node # m /\ m \notin Range1(Inside(r.node))
  BY <1>6, <1>8 DEF Range1
<1>11. \A g \in Range1(calls) : g.node # m
  BY <1>9 DEF Range1
<1> QED BY <1>5, <1>6, <1>10, <1>11

\* The schema of a call is that of the class that the row above it names.
Fits(a, schema, class) ==
  \/ class = ""
  \/ schema = FieldsOf(models, class)
  \/ a.response.wrapped /\ class = "ApiResponse" /\ schema = SchemaFor(a)

\* Where the type of a row comes from, if not from that class: TypesDeclared.
Typed(a, r, class) ==
  \/ Declared(class, Key[r.node]) \subseteq {r.typ}
  \/ a.group \in {"Banking", "Asset"} /\ Key[r.node] \in IdKeys
  \/ a.response.wrapped /\ Key[r.node] = "data" /\ r.typ.of = a.response.of

SchemaInvariant ==
  pc = "walk" =>
    /\ \A f \in Range1(todo) : \A class \in Above(Head(queue), f.node) : Fits(Head(queue), f.schema, class)
    /\ \A r \in Range1(rows) : \A class \in Above(Head(queue), r.node) : Typed(Head(queue), r, class)

LEMMA FitsTyped ==
  ASSUME ModelsInvariant, pc = "walk", NEW a, NEW schema, NEW class, Fits(a, schema, class),
         NEW r, r.typ = TypeOf(a, schema, r.node)
  PROVE  Typed(a, r, class)
<1> DEFINE key == Key[r.node]
           fields == FieldsOf(models, class)
<1>1. /\ models = Overriding(schemas, manifest.models) /\ Grounded(models)
      /\ "" \notin DOMAIN models
  BY ClassAssumption DEF ModelsInvariant, Merged
<1>2. Declared(class, key) = IF key \in DOMAIN fields THEN {fields[key]} ELSE {}
  BY <1>1, DeclaredFields
<1>3. CASE a.group \in {"Banking", "Asset"} /\ key \in IdKeys
  BY <1>3 DEF Typed
<1>4. CASE ~(a.group \in {"Banking", "Asset"} /\ key \in IdKeys)
  <2>1. key \in DOMAIN schema => r.typ = schema[key]
    BY <1>4 DEF TypeOf
  <2>2. CASE class = ""
    <3>1. fields = <<>>
      BY <1>1, <2>2 DEF FieldsOf
    <3>2. Declared(class, key) = {}
      BY <1>2, <3>1
    <3> QED BY <3>2 DEF Typed
  <2>3. CASE schema = fields
    <3>1. Declared(class, key) \subseteq {r.typ}
      BY <1>2, <2>1, <2>3
    <3> QED BY <3>1 DEF Typed
  <2>4. CASE a.response.wrapped /\ class = "ApiResponse" /\ schema = SchemaFor(a)
    <3> DEFINE data == [NoType EXCEPT !.of = a.response.of, !.null = TRUE]
    <3>1. schema = Overriding([data |-> data], fields)
      BY <2>4 DEF SchemaFor
    <3>2. data.of = a.response.of
      BY DEF NoType
    <3> HIDE DEF data, fields
    <3>3. /\ key = "data" => key \in DOMAIN schema /\ schema[key] = data
          /\ key # "data" /\ key \in DOMAIN fields => key \in DOMAIN schema /\ schema[key] = fields[key]
      BY <3>1 DEF Overriding
    <3>4. CASE key = "data"
      <4>1. r.typ.of = a.response.of
        BY <2>1, <3>2, <3>3, <3>4
      <4> QED BY <2>4, <3>4, <4>1 DEF Typed
    <3>5. CASE key # "data"
      <4>1. Declared(class, key) \subseteq {r.typ}
        BY <1>2, <2>1, <3>3, <3>5
      <4> QED BY <4>1 DEF Typed
    <3> QED BY <3>4, <3>5
  <2> QED BY <2>2, <2>3, <2>4 DEF Fits
<1> QED BY <1>3, <1>4

LEMMA SameFits ==
  ASSUME NEW a, NEW schema, NEW class, NEW key, NEW n,
         UNCHANGED models, UNCHANGED manifest, UNCHANGED schemas
  PROVE  /\ Fits(a, schema, class)' <=> Fits(a, schema, class)
         /\ Declared(class, key)' = Declared(class, key)
<1>1. SchemaFor(a)' = SchemaFor(a) /\ FieldsOf(models, class)' = FieldsOf(models, class)
  BY DEF SchemaFor
<1>2. Fits(a, schema, class)' <=> Fits(a, schema, class)
  BY <1>1 DEF Fits
<1>3. Declared(class, key)' = Declared(class, key)
  BY DEF Declared
<1> QED BY <1>2, <1>3

\* At the beginning of a section only the root's own fields are called.
LEMMA SchemaOpens ==
  ASSUME GuideInvariant, OpenSection
  PROVE  SchemaInvariant'
<1>0. PICK a : a = Head(queue)
  OBVIOUS
<1> DEFINE C == IF a.response.wrapped THEN "ApiResponse" ELSE a.response.of
<1>1. /\ Head(queue)' = a /\ models' = models /\ todo' = Calls(Inside(a.root), SchemaFor(a), FALSE)
      /\ \/ rows' = <<>>
         \/ rows' = <<[node |-> a.root, typ |-> NoType, shown |-> "array", null |-> FALSE, maybe |-> FALSE]>>
      /\ UNCHANGED <<manifest, schemas>>
  BY <1>0 DEF OpenSection, inputFiles
<1>2. \A r \in Range1(rows') : r.node = a.root /\ r.typ.of = ""
  <2>1. CASE rows' = <<>>
    BY <2>1, EmptyTable
  <2>2. CASE rows' = <<[node |-> a.root, typ |-> NoType, shown |-> "array", null |-> FALSE, maybe |-> FALSE]>>
    <3>1. PICK r : rows' = <<r>> /\ r.node = a.root /\ r.typ = NoType
      BY <2>2
    <3>2. NoType.of = ""
      BY DEF NoType
    <3>3. \A q \in Range1(rows') : q = r
      BY <3>1 DEF Range1
    <3> QED BY <3>1, <3>2, <3>3
  <2> QED BY <1>1, <2>1, <2>2
<1>3. \A p, typ : Range1(Below(p, typ)) \subseteq Range1(Inside(p))
  BY BelowNodes DEF Range1
<1>4. \A n : \A class \in Above(a, n)' : n \in Range1(Inside(a.root)) /\ class \in {C, ""}
  BY <1>2, <1>3 DEF Above
<1>5. \A f \in Range1(todo') : f.schema = SchemaFor(a)
  BY <1>1 DEF Calls, Range1
<1>6. a.root \notin Range1(Inside(a.root))
  BY Tree, DepthNat DEF Range1
<1>7. Fits(a, SchemaFor(a), C) /\ Fits(a, SchemaFor(a), "")
  BY DEF Fits, SchemaFor
<1> HIDE DEF C
<1>8. \A f \in Range1(todo') : \A class \in Above(a, f.node)' : Fits(a, f.schema, class)
  BY <1>4, <1>5, <1>7
<1>9. \A f \in Range1(todo') : \A class \in Above(a, f.node)' : Fits(a, f.schema, class)'
  BY <1>1, <1>8, SameFits
<1>10. \A r \in Range1(rows') : \A class \in Above(a, r.node)' : FALSE
  BY <1>2, <1>4, <1>6
<1> QED BY <1>1, <1>9, <1>10 DEF SchemaInvariant

\* A field is documented with the schema of its call, and what is below it is
\* called with the class of its type; nothing else is below it.
LEMMA SchemaGoesOn ==
  ASSUME GuideInvariant, SchemaInvariant, Document
  PROVE  SchemaInvariant'
<1>1. PICK a, f, table, calls : a = Head(queue) /\ f = Head(todo) /\ table = rows /\ calls = todo
  OBVIOUS
<1>2. PICK typ, row :
        /\ typ = TypeOf(a, f.schema, f.node) /\ row.node = f.node /\ row.typ = typ
        /\ rows' = Append(table, row) /\ todo' = Following(f, typ)
  BY <1>1 DEF Document
<1>3. /\ pc = "walk" /\ calls # <<>> /\ Head(queue)' = a /\ UNCHANGED <<models, manifest, schemas>>
      /\ ModelsInvariant /\ Walked(a.root, table, calls)
  BY <1>1 DEF Document, inputFiles, GuideInvariant, SectionInvariant
<1>4. /\ \A g \in Range1(calls) : \A class \in Above(a, g.node) : Fits(a, g.schema, class)
      /\ \A r \in Range1(table) : \A class \in Above(a, r.node) : Typed(a, r, class)
  BY <1>1, <1>3 DEF SchemaInvariant
<1>5. f \in Range1(calls)
  BY <1>1, <1>3, SeqFacts DEF Walked, Range1
<1>6. Range1(rows') = Range1(table) \cup {row}
  BY <1>2, <1>3, Appended DEF Walked
<1> DEFINE B == Range1(Below(f.node, typ))
<1>7. \A p, t : Range1(Below(p, t)) \subseteq Range1(Inside(p))
  BY BelowNodes DEF Range1
<1>8. ASSUME NEW m \in Range1(Inside(f.node))
      PROVE  /\ m \notin Range1(Inside(a.root)) /\ m # f.node
             /\ \A r \in Range1(table) : r.node # m /\ m \notin Range1(Inside(r.node))
             /\ \A g \in Range1(calls) : g.node # m
  <2>1. PICK root : root = a.root
    OBVIOUS
  <2>2. Walked(root, table, calls) /\ calls # <<>> /\ f.node = Head(calls).node
    BY <1>1, <1>3, <2>1
  <2>3. /\ m \notin Range1(Inside(root)) /\ m # f.node
        /\ \A r \in Range1(table) : r.node # m /\ m \notin Range1(Inside(r.node))
        /\ \A g \in Range1(calls) : g.node # m
    BY <2>2, Unmet
  <2> QED BY <2>1, <2>3
<1>9. \A m : m \notin B => Above(a, m)' = Above(a, m)
  BY <1>1, <1>2, <1>6 DEF Above
<1>10. \A m \in B : Above(a, m)' = {typ.of}
  <2> SUFFICES ASSUME NEW m \in B PROVE Above(a, m)' = {typ.of}
    OBVIOUS
  <2>1. m \in Range1(Inside(f.node))
    BY <1>7
  <2>2. m \notin Range1(Inside(a.root)) /\ \A r \in Range1(table) : m \notin Range1(Below(r.node, r.typ))
    BY <1>7, <1>8, <2>1
  <2> QED BY <1>2, <1>6, <2>2 DEF Above
<1>11. ASSUME NEW g \in Range1(todo')
       PROVE  \/ g \in Range1(calls) /\ g.node \notin B
              \/ g.node \in B /\ g.schema = FieldsOf(models, typ.of)
  <2> DEFINE K == Below(f.node, typ)
  <2>1. PICK maybe : maybe = (f.maybe \/ Kind[f.node] = "null")
    OBVIOUS
  <2> DEFINE c == Calls(K, FieldsOf(models, typ.of), maybe)
  <2>2. todo' = c \o Tail(calls)
    BY <1>1, <1>2, <2>1 DEF Following
  <2>3. K \in Seq(Node)
    BY BelowNodes
  <2>4. /\ IsSeq(c) /\ DOMAIN c = 1..Len(K) /\ DOMAIN K = 1..Len(K)
        /\ \A i \in 1..Len(K) : c[i].node = K[i] /\ c[i].schema = FieldsOf(models, typ.of)
    <3>1. IsSeq(c) /\ DOMAIN c = 1..Len(K) /\ \A i \in 1..Len(K) : c[i].node = K[i]
      BY <2>3, CallsFacts
    <3>2. DOMAIN K = 1..Len(K)
      BY <2>3
    <3>3. \A i \in 1..Len(K) : c[i].schema = FieldsOf(models, typ.of)
      BY <3>2 DEF Calls
    <3> QED BY <3>1, <3>2, <3>3
  <2> HIDE DEF c, K
  <2>5. IsSeq(calls)
    BY <1>3 DEF Walked
  <2>6. Range1(c \o Tail(calls)) \subseteq Range1(c) \cup Range1(calls)
    <3> DEFINE S == Range1(c) \cup Range1(calls)
    <3>1. c \in Seq(S) /\ calls \in Seq(S)
      BY <2>4, <2>5 DEF IsSeq
    <3> HIDE DEF S
    <3>2. c \o Tail(calls) \in Seq(S)
      BY <1>3, <3>1
    <3>3. \A i \in DOMAIN (c \o Tail(calls)) : (c \o Tail(calls))[i] \in S
      BY <3>2
    <3> QED BY <3>3 DEF Range1, S
  <2>7. CASE g \in Range1(c)
    BY <2>4, <2>7 DEF Range1, K
  <2>8. CASE g \in Range1(calls)
    BY <1>7, <1>8, <2>8
  <2> QED BY <2>2, <2>6, <2>7, <2>8
<1>12. \A g \in Range1(todo') : \A class \in Above(a, g.node)' : Fits(a, g.schema, class)'
  <2> SUFFICES ASSUME NEW g \in Range1(todo'), NEW class \in Above(a, g.node)'
               PROVE  Fits(a, g.schema, class)'
    OBVIOUS
  <2>1. Fits(a, g.schema, class)
    <3>1. CASE g \in Range1(calls) /\ g.node \notin B
      BY <1>4, <1>9, <3>1
    <3>2. CASE g.node \in B /\ g.schema = FieldsOf(models, typ.of)
      BY <1>10, <3>2 DEF Fits
    <3> QED BY <1>11, <3>1, <3>2
  <2> QED BY <1>3, <2>1, SameFits
<1>13. \A r \in Range1(rows') : \A class \in Above(a, r.node)' : Typed(a, r, class)'
  <2> SUFFICES ASSUME NEW r \in Range1(rows'), NEW class \in Above(a, r.node)'
               PROVE  Typed(a, r, class)'
    OBVIOUS
  <2>1. r.node \notin B
    BY <1>2, <1>6, <1>7, <1>8
  <2>2. class \in Above(a, r.node)
    BY <1>9, <2>1
  <2>3. Typed(a, r, class)
    <3>1. CASE r \in Range1(table)
      BY <1>4, <2>2, <3>1
    <3>2. CASE r = row
      <4>1. Fits(a, f.schema, class)
        BY <1>2, <1>4, <1>5, <2>2, <3>2
      <4> QED BY <1>2, <1>3, <3>2, <4>1, FitsTyped
    <3> QED BY <1>6, <3>1, <3>2
  <2>4. Declared(class, Key[r.node])' = Declared(class, Key[r.node])
    BY <1>3, SameFits
  <2> QED BY <2>3, <2>4 DEF Typed
<1> QED BY <1>3, <1>12, <1>13 DEF SchemaInvariant

LEMMA SchemaStep ==
  ASSUME GuideInvariant, SchemaInvariant, [Next]_vars
  PROVE  SchemaInvariant'
<1>1. CASE OpenSection
  BY <1>1, SchemaOpens
<1>2. CASE Document
  BY <1>2, SchemaGoesOn
<1>3. CASE Edit \/ Load \/ CloseSection \/ Fail \/ OpenGuide \/ SaveGuide \/ OpenCover \/ SaveCover \/ Crash
  <2>1. pc' # "walk"
    BY <1>3 DEF Edit, Load, CloseSection, Fail, OpenGuide, SaveGuide, OpenCover, SaveCover, Crash,
                Forget, Idle
  <2> QED BY <2>1 DEF SchemaInvariant
<1>4. CASE Done \/ UNCHANGED vars
  <2>1. UNCHANGED <<pc, queue, todo, rows, models, manifest, schemas>>
    BY <1>4 DEF Done, vars, inputFiles, memory
  <2>2. PICK a : a = Head(queue)
    OBVIOUS
  <2>3. Head(queue)' = a /\ \A n : Above(a, n)' = Above(a, n)
    BY <2>1, <2>2 DEF Above
  <2>4. \A r, class : Typed(a, r, class)' <=> Typed(a, r, class)
    BY <2>1, SameFits DEF Typed
  <2>5. \A schema, class : Fits(a, schema, class)' <=> Fits(a, schema, class)
    BY <2>1, SameFits
  <2> QED BY <2>1, <2>2, <2>3, <2>4, <2>5 DEF SchemaInvariant
<1> QED BY <1>1, <1>2, <1>3, <1>4 DEF Next

\* A row's type is the one that the class named by the row above it declares
\* in the sources of Auth as they are, or in the manifest: response_rows
\* looks fields up in the schema of the object they are in.
THEOREM GuideTypesDeclared == Spec => []TypesDeclared
<1>1. Init => SchemaInvariant
  BY DEF Init, SchemaInvariant, Idle
<1>2. SchemaInvariant => TypesDeclared
  BY DEF SchemaInvariant, TypesDeclared, Typed
<1>3. GuideInvariant /\ SchemaInvariant /\ [Next]_vars => SchemaInvariant'
  BY SchemaStep
<1> QED BY <1>1, <1>2, <1>3, InvariantHolds, PTL DEF Spec

\* Induction over numbers, for a set of numbers instead of a predicate: were
\* one missing, the intervals up to the missing ones would have no least.
LEMMA Naturals ==
  ASSUME NEW S, 0 \in S, \A i \in Nat : i \in S => i + 1 \in S
  PROVE  Nat \subseteq S
<1> DEFINE missing == {0..n : n \in Nat \ S}
<1>1. SUFFICES ASSUME NEW m \in Nat, m \notin S PROVE FALSE
  OBVIOUS
<1>2. missing # {} /\ missing \subseteq FiniteSubsetsOf(Nat)
  <2>1. \A n \in Nat : 0..n \in FiniteSubsetsOf(Nat)
    <3>1. \A n \in Nat : IsFiniteSet(0..n) /\ 0..n \in SUBSET Nat
      BY FS_Interval
    <3> QED BY <3>1 DEF FiniteSubsetsOf
  <2>2. 0..m \in missing
    BY <1>1
  <2> QED BY <2>1, <2>2
<1> HIDE DEF missing
<1>3. PICK X \in missing : \A Y \in missing : <<Y, X>> \notin StrictSubsetOrdering(Nat)
  <2>1. IsWellFoundedOn(StrictSubsetOrdering(Nat), FiniteSubsetsOf(Nat))
    BY FS_StrictSubsetOrderingWellFounded
  <2> QED BY <1>2, <2>1, WFMin
<1>4. PICK n \in Nat \ S : X = 0..n
  BY DEF missing
<1>5. n # 0 /\ n - 1 \in Nat /\ n - 1 \notin S
  BY <1>4
<1>6. 0..(n - 1) \in missing
  BY <1>5 DEF missing
<1>7. <<0..(n - 1), 0..n>> \in StrictSubsetOrdering(Nat)
  <2>1. 0..(n - 1) \in SUBSET Nat /\ 0..n \in SUBSET Nat /\ 0..(n - 1) \subseteq 0..n
    BY <1>5
  <2>2. n \in 0..n /\ n \notin 0..(n - 1)
    BY <1>5
  <2> QED BY <2>1, <2>2 DEF StrictSubsetOrdering
<1> QED BY <1>3, <1>4, <1>6, <1>7

LEMMA UpTo ==
  ASSUME NEW n \in Nat, NEW S, 0 \in S, \A i \in 0..(n - 1) : i \in S => i + 1 \in S
  PROVE  0..n \subseteq S
<1> DEFINE U == {i \in Nat : i <= n => i \in S}
<1>1. 0 \in U /\ \A i \in Nat : i \in U => i + 1 \in U
  OBVIOUS
<1>2. Nat \subseteq U
  <2> HIDE DEF U
  <2> QED BY <1>1, Naturals
<1> QED BY <1>2

(***************************************************************************)
(* Selection.  c[i] is what Chosen has selected of the first i elements.   *)
(***************************************************************************)
Selects(c, s, T) ==
  /\ c[0] = <<>>
  /\ \A i \in 1..Len(s) : c[i] = IF s[i] \in T THEN Append(c[i - 1], s[i]) ELSE c[i - 1]

LEMMA SelectionExists ==
  ASSUME NEW S, NEW s \in Seq(S), NEW T
  PROVE  \E c : c = [i \in 0..Len(s) |->
                       IF i = 0 THEN <<>> ELSE IF s[i] \in T THEN Append(c[i - 1], s[i]) ELSE c[i - 1]]
<1> DEFINE Value(c, i) ==
             IF i = 0 THEN <<>> ELSE IF s[i] \in T THEN Append(c[i - 1], s[i]) ELSE c[i - 1]
           Solved == {n \in Nat : \E c : c = [i \in 0..n |-> Value(c, i)]}
<1>1. Len(s) \in Nat
  OBVIOUS
<1>2. 0 \in Solved
  <2>1. [i \in 0..0 |-> <<>>] = [i \in 0..0 |-> Value([j \in 0..0 |-> <<>>], i)]
    OBVIOUS
  <2> HIDE DEF Value
  <2> QED BY <2>1
<1>3. ASSUME NEW n \in Nat, n \in Solved PROVE n + 1 \in Solved
  <2>1. PICK c : c = [i \in 0..n |-> Value(c, i)]
    BY <1>3
  <2> DEFINE d == [i \in 0..(n + 1) |-> IF i = n + 1 THEN Value(c, i) ELSE c[i]]
  <2>2. \A i \in 0..n : d[i] = c[i]
    OBVIOUS
  <2>3. d[n + 1] = Value(c, n + 1)
    OBVIOUS
  <2>4. \A i \in 0..(n + 1) : Value(d, i) = Value(c, i)
    <3> SUFFICES ASSUME NEW i \in 0..(n + 1), i # 0 PROVE Value(d, i) = Value(c, i)
      OBVIOUS
    <3>1. d[i - 1] = c[i - 1]
      BY <2>2
    <3> HIDE DEF d
    <3> QED BY <3>1
  <2>5. \A i \in 0..n : c[i] = Value(c, i)
    <3> HIDE DEF Value, Solved
    <3> QED BY <2>1
  <2>6. \A i \in 0..(n + 1) : d[i] = Value(d, i)
    <3> SUFFICES ASSUME NEW i \in 0..(n + 1) PROVE d[i] = Value(d, i)
      OBVIOUS
    <3> HIDE DEF Value, Solved, d
    <3>1. CASE i = n + 1
      BY <2>3, <2>4, <3>1
    <3>2. CASE i \in 0..n
      BY <2>2, <2>4, <2>5, <3>2
    <3> QED BY <3>1, <3>2
  <2>7. d = [i \in 0..(n + 1) |-> Value(d, i)]
    <3>1. d = [i \in 0..(n + 1) |-> d[i]]
      OBVIOUS
    <3> HIDE DEF Value, d
    <3> QED BY <2>6, <3>1
  <2> HIDE DEF Value, d
  <2> QED BY <2>7
<1> HIDE DEF Value, Solved
<1>4. Len(s) \in Solved
  BY <1>1, <1>2, <1>3, Naturals
<1> QED BY <1>4 DEF Solved, Value

LEMMA Selection ==
  ASSUME NEW S, NEW s \in Seq(S), NEW T
  PROVE  \E c : Selects(c, s, T) /\ Chosen(s, T) = c[Len(s)] /\ \A i \in 0..Len(s) : c[i] \in Seq(S)
<1> DEFINE Solution(c) == c = [i \in 0..Len(s) |->
             IF i = 0 THEN <<>> ELSE IF s[i] \in T THEN Append(c[i - 1], s[i]) ELSE c[i - 1]]
           g == CHOOSE c : Solution(c)
<1>1. \E c : Solution(c)
  BY SelectionExists
<1>2. Chosen(s, T) = g[Len(s)]
  BY DEF Chosen
<1>3. Solution(g)
  <2> HIDE DEF Solution
  <2> QED BY <1>1
<1> HIDE DEF g
<1>4. Len(s) \in Nat /\ \A i \in 1..Len(s) : s[i] \in S
  OBVIOUS
<1>5. Selects(g, s, T)
  <2>1. \A i \in 0..Len(s) : g[i] =
          IF i = 0 THEN <<>> ELSE IF s[i] \in T THEN Append(g[i - 1], s[i]) ELSE g[i - 1]
    BY <1>3
  <2>2. 0 \in 0..Len(s) /\ \A i \in 1..Len(s) : i \in 0..Len(s) /\ i # 0
    BY <1>4
  <2> HIDE DEF Solution
  <2> QED BY <2>1, <2>2 DEF Selects
<1> HIDE DEF Solution
<1> DEFINE Typed0 == {i \in 0..Len(s) : g[i] \in Seq(S)}
<1>6. 0 \in Typed0 /\ \A i \in 0..(Len(s) - 1) : i \in Typed0 => i + 1 \in Typed0
  <2>1. g[0] \in Seq(S)
    BY <1>5 DEF Selects
  <2>2. ASSUME NEW i \in 0..(Len(s) - 1), g[i] \in Seq(S) PROVE g[i + 1] \in Seq(S)
    <3>1. i + 1 \in 1..Len(s) /\ (i + 1) - 1 = i /\ s[i + 1] \in S
      BY <1>4
    <3>2. g[i + 1] = IF s[i + 1] \in T THEN Append(g[i], s[i + 1]) ELSE g[i]
      BY <1>5, <3>1 DEF Selects
    <3> QED BY <2>2, <3>1, <3>2
  <2> QED BY <1>4, <2>1, <2>2
<1>7. 0..Len(s) \subseteq Typed0
  <2> HIDE DEF Typed0
  <2> QED BY <1>4, <1>6, UpTo
<1> QED BY <1>2, <1>5, <1>7
\* One step of a selection.
LEMMA SelectionStep ==
  ASSUME NEW S, NEW s \in Seq(S), NEW T, NEW c, Selects(c, s, T), NEW i \in 0..(Len(s) - 1)
  PROVE  /\ i + 1 \in 1..Len(s) /\ s[i + 1] \in S
         /\ c[i + 1] = IF s[i + 1] \in T THEN Append(c[i], s[i + 1]) ELSE c[i]
<1>1. i + 1 \in 1..Len(s) /\ (i + 1) - 1 = i /\ s[i + 1] \in S
  OBVIOUS
<1> QED BY <1>1 DEF Selects

\* Append, element by element.
LEMMA Longer ==
  ASSUME NEW S, NEW s \in Seq(S), NEW x \in S
  PROVE  /\ Append(s, x) \in Seq(S) /\ Len(Append(s, x)) = Len(s) + 1 /\ Len(s) \in Nat
         /\ \A i \in 1..Len(s) : Append(s, x)[i] = s[i]
         /\ Append(s, x)[Len(s) + 1] = x
         /\ Range1(Append(s, x)) = Range1(s) \cup {x}
<1>1. /\ Append(s, x) \in Seq(S) /\ Len(Append(s, x)) = Len(s) + 1 /\ Len(s) \in Nat
      /\ \A i \in 1..Len(s) : Append(s, x)[i] = s[i]
      /\ Append(s, x)[Len(s) + 1] = x
  OBVIOUS
<1>2. DOMAIN s = 1..Len(s) /\ DOMAIN Append(s, x) = 1..(Len(s) + 1)
  BY <1>1
<1> QED BY <1>1, <1>2 DEF Range1

\* What Chosen returns are the elements of s that are in T.
LEMMA ChosenRange ==
  ASSUME NEW S, NEW s \in Seq(S), NEW T
  PROVE  Chosen(s, T) \in Seq(S) /\ Range1(Chosen(s, T)) = Range1(s) \cap T
<1>1. PICK c : Selects(c, s, T) /\ Chosen(s, T) = c[Len(s)] /\ \A i \in 0..Len(s) : c[i] \in Seq(S)
  BY Selection
<1> DEFINE R == {i \in 0..Len(s) : Range1(c[i]) = {s[j] : j \in 1..i} \cap T}
<1>2. Len(s) \in Nat /\ DOMAIN s = 1..Len(s)
  OBVIOUS
<1>3. 0 \in R
  <2>1. c[0] = <<>> /\ Range1(<<>>) = {}
    BY <1>1 DEF Selects, Range1
  <2> QED BY <1>2, <2>1
<1>4. ASSUME NEW i \in 0..(Len(s) - 1), i \in R PROVE i + 1 \in R
  <2>1. s[i + 1] \in S /\ c[i + 1] = IF s[i + 1] \in T THEN Append(c[i], s[i + 1]) ELSE c[i]
    BY <1>1, SelectionStep
  <2>2. c[i] \in Seq(S) /\ Range1(c[i]) = {s[j] : j \in 1..i} \cap T
    BY <1>1, <1>2, <1>4
  <2>3. Range1(Append(c[i], s[i + 1])) = Range1(c[i]) \cup {s[i + 1]}
    BY <2>1, <2>2, Longer
  <2>4. {s[j] : j \in 1..(i + 1)} = {s[j] : j \in 1..i} \cup {s[i + 1]}
    <3>1. 1..(i + 1) = 1..i \cup {i + 1}
      BY <1>2
    <3> QED BY <3>1
  <2>5. Range1(c[i + 1]) = {s[j] : j \in 1..(i + 1)} \cap T
    BY <2>1, <2>2, <2>3, <2>4
  <2> QED BY <1>2, <2>5
<1>5. 0..Len(s) \subseteq R
  <2> HIDE DEF R
  <2> QED BY <1>2, <1>3, <1>4, UpTo
<1>6. Len(s) \in 0..Len(s) /\ Range1(c[Len(s)]) = {s[j] : j \in 1..Len(s)} \cap T
  BY <1>2, <1>5
<1>7. Range1(s) = {s[j] : j \in 1..Len(s)}
  BY <1>2 DEF Range1
<1> QED BY <1>1, <1>6, <1>7

\* A selection that takes everything, and one that takes nothing.
LEMMA ChosenAll ==
  ASSUME NEW S, NEW s \in Seq(S), NEW T, Range1(s) \subseteq T
  PROVE  Chosen(s, T) = s
<1>1. PICK c : Selects(c, s, T) /\ Chosen(s, T) = c[Len(s)] /\ \A i \in 0..Len(s) : c[i] \in Seq(S)
  BY Selection
<1> DEFINE R == {i \in 0..Len(s) : Len(c[i]) = i /\ \A j \in 1..i : c[i][j] = s[j]}
<1>2. Len(s) \in Nat /\ DOMAIN s = 1..Len(s)
  OBVIOUS
<1>3. 0 \in R
  <2>1. c[0] = <<>>
    BY <1>1 DEF Selects
  <2> QED BY <1>2, <2>1
<1>4. ASSUME NEW i \in 0..(Len(s) - 1), i \in R PROVE i + 1 \in R
  <2>1. /\ i + 1 \in 1..Len(s) /\ s[i + 1] \in S
        /\ c[i + 1] = IF s[i + 1] \in T THEN Append(c[i], s[i + 1]) ELSE c[i]
    BY <1>1, SelectionStep
  <2>2. s[i + 1] \in T
    BY <1>2, <2>1 DEF Range1
  <2>3. c[i] \in Seq(S) /\ Len(c[i]) = i /\ \A j \in 1..i : c[i][j] = s[j]
    BY <1>1, <1>2, <1>4
  <2>4. c[i + 1] = Append(c[i], s[i + 1])
    BY <2>1, <2>2
  <2>5. /\ Len(c[i + 1]) = i + 1
        /\ \A j \in 1..i : c[i + 1][j] = s[j]
        /\ c[i + 1][i + 1] = s[i + 1]
    BY <2>1, <2>3, <2>4, Longer
  <2>6. \A j \in 1..(i + 1) : c[i + 1][j] = s[j]
    BY <2>5
  <2>7. i + 1 \in 0..Len(s)
    BY <1>2
  <2> QED BY <2>5, <2>6, <2>7
<1>5. 0..Len(s) \subseteq R
  <2> HIDE DEF R
  <2> QED BY <1>2, <1>3, <1>4, UpTo
<1>6. c[Len(s)] \in Seq(S) /\ Len(c[Len(s)]) = Len(s) /\ \A j \in 1..Len(s) : c[Len(s)][j] = s[j]
  BY <1>1, <1>2, <1>5
<1>7. c[Len(s)] = s
  BY <1>6
<1> QED BY <1>1, <1>7

LEMMA ChosenNone ==
  ASSUME NEW S, NEW s \in Seq(S), NEW T, Range1(s) \cap T = {}
  PROVE  Chosen(s, T) = <<>>
<1>1. Chosen(s, T) \in Seq(S) /\ Range1(Chosen(s, T)) = {}
  BY ChosenRange
<1>2. Chosen(s, T) # <<>> => Chosen(s, T)[1] \in Range1(Chosen(s, T))
  BY <1>1 DEF Range1
<1> QED BY <1>1, <1>2

\* Elements that are in different places of s, by their ids, stay so.
LEMMA ChosenDistinct ==
  ASSUME NEW S, NEW s \in Seq(S), NEW T,
         \A i, j \in 1..Len(s) : s[i] \in T /\ s[j] \in T /\ s[i].id = s[j].id => i = j
  PROVE  \A i, j \in 1..Len(Chosen(s, T)) : Chosen(s, T)[i].id = Chosen(s, T)[j].id => i = j
<1>1. PICK c : Selects(c, s, T) /\ Chosen(s, T) = c[Len(s)] /\ \A i \in 0..Len(s) : c[i] \in Seq(S)
  BY Selection
<1>2. Len(s) \in Nat /\ DOMAIN s = 1..Len(s)
  OBVIOUS
<1> DEFINE R == {i \in 0..Len(s) :
                   /\ \A k \in 1..Len(c[i]) : \E j \in 1..i : c[i][k] = s[j] /\ s[j] \in T
                   /\ \A k, l \in 1..Len(c[i]) : c[i][k].id = c[i][l].id => k = l}
<1>3. 0 \in R
  <2>1. c[0] = <<>>
    BY <1>1 DEF Selects
  <2> QED BY <1>2, <2>1
<1>4. ASSUME NEW i \in 0..(Len(s) - 1), i \in R PROVE i + 1 \in R
  <2> DEFINE b == c[i]
             x == s[i + 1]
  <2>1. i + 1 \in 1..Len(s) /\ x \in S /\ c[i + 1] = IF x \in T THEN Append(b, x) ELSE b
    BY <1>1, SelectionStep
  <2>2. /\ b \in Seq(S) /\ Len(b) \in Nat
        /\ \A k \in 1..Len(b) : \E j \in 1..i : b[k] = s[j] /\ s[j] \in T
        /\ \A k, l \in 1..Len(b) : b[k].id = b[l].id => k = l
    BY <1>1, <1>2, <1>4
  <2>3. CASE x \notin T
    <3>1. c[i + 1] = b /\ 1..i \subseteq 1..(i + 1)
      BY <2>1, <2>3
    <3>2. i + 1 \in 0..Len(s)
      BY <1>2
    <3> HIDE DEF b
    <3>3. \A k \in 1..Len(b) : \E j \in 1..(i + 1) : b[k] = s[j] /\ s[j] \in T
      BY <2>2, <3>1
    <3> QED BY <2>2, <3>1, <3>2, <3>3
  <2>4. CASE x \in T
    <3>1. c[i + 1] = Append(b, x)
      BY <2>1, <2>4
    <3>2. /\ Len(Append(b, x)) = Len(b) + 1
          /\ \A k \in 1..Len(b) : Append(b, x)[k] = b[k]
          /\ Append(b, x)[Len(b) + 1] = x
      BY <2>1, <2>2, Longer
    <3>3. \A k \in 1..Len(b) : b[k].id # x.id
      <4> SUFFICES ASSUME NEW k \in 1..Len(b), b[k].id = x.id PROVE FALSE
        OBVIOUS
      <4>1. PICK j \in 1..i : b[k] = s[j] /\ s[j] \in T
        BY <2>2
      <4>2. j \in 1..Len(s) /\ j # i + 1 /\ s[j].id = s[i + 1].id
        BY <1>2, <4>1
      <4> QED BY <2>1, <2>4, <4>1, <4>2
    <3> HIDE DEF b, x
    <3>4. \A k \in 1..Len(Append(b, x)) : k \in 1..Len(b) \/ k = Len(b) + 1
      BY <2>2, <3>2
    <3>5. \A k, l \in 1..Len(Append(b, x)) : Append(b, x)[k].id = Append(b, x)[l].id => k = l
      <4> SUFFICES ASSUME NEW k \in 1..Len(Append(b, x)), NEW l \in 1..Len(Append(b, x)),
                          Append(b, x)[k].id = Append(b, x)[l].id
                   PROVE  k = l
        OBVIOUS
      <4>1. CASE k \in 1..Len(b) /\ l \in 1..Len(b)
        BY <2>2, <3>2, <4>1
      <4>2. CASE k \in 1..Len(b) /\ l = Len(b) + 1
        BY <3>2, <3>3, <4>2
      <4>3. CASE k = Len(b) + 1 /\ l \in 1..Len(b)
        BY <3>2, <3>3, <4>3
      <4> QED BY <3>4, <4>1, <4>2, <4>3
    <3>6. \A k \in 1..Len(Append(b, x)) : \E j \in 1..(i + 1) : Append(b, x)[k] = s[j] /\ s[j] \in T
      <4>1. i + 1 \in 1..(i + 1) /\ 1..i \subseteq 1..(i + 1)
        BY <1>2
      <4>2. x = s[i + 1]
        BY DEF x
      <4> QED BY <2>2, <2>4, <3>2, <3>4, <4>1, <4>2
    <3>7. i + 1 \in 0..Len(s)
      BY <1>2
    <3> QED BY <3>1, <3>5, <3>6, <3>7
  <2> QED BY <2>3, <2>4
<1>5. 0..Len(s) \subseteq R
  <2> HIDE DEF R
  <2> QED BY <1>2, <1>3, <1>4, UpTo
<1> QED BY <1>1, <1>2, <1>5

LEMMA Joined ==
  ASSUME NEW S, NEW a \in Seq(S), NEW b \in Seq(S), NEW x \in S
  PROVE  /\ a \o <<>> = a
         /\ a \o Append(b, x) = Append(a \o b, x)
<1>1. a \o <<>> = a
  OBVIOUS
<1> DEFINE p == a \o Append(b, x)
           q == Append(a \o b, x)
<1>2. /\ a \o b \in Seq(S) /\ Append(b, x) \in Seq(S) /\ Len(a) \in Nat /\ Len(b) \in Nat
      /\ Len(a \o b) = Len(a) + Len(b) /\ Len(Append(b, x)) = Len(b) + 1
  OBVIOUS
<1>3. /\ p \in Seq(S) /\ Len(p) = Len(a) + Len(b) + 1
      /\ q \in Seq(S) /\ Len(q) = Len(a) + Len(b) + 1
  BY <1>2
<1>4. \A i \in 1..(Len(a) + Len(b) + 1) : p[i] = q[i]
  BY <1>2
<1> HIDE DEF p, q
<1>5. p = q
  BY <1>3, <1>4
<1> QED BY <1>1, <1>5 DEF p, q

\* A selection from two sequences, one after the other.
LEMMA ChosenConcat ==
  ASSUME NEW S, NEW u \in Seq(S), NEW v \in Seq(S), NEW T
  PROVE  Chosen(u \o v, T) = Chosen(u, T) \o Chosen(v, T)
<1> DEFINE s == u \o v
<1>1. /\ s \in Seq(S) /\ Len(u) \in Nat /\ Len(v) \in Nat /\ Len(s) = Len(u) + Len(v)
      /\ DOMAIN u = 1..Len(u) /\ DOMAIN v = 1..Len(v)
      /\ \A i \in 1..Len(u) : s[i] = u[i]
      /\ \A i \in 1..Len(v) : s[Len(u) + i] = v[i]
  OBVIOUS
<1> HIDE DEF s
<1>2. PICK c : Selects(c, s, T) /\ Chosen(s, T) = c[Len(s)] /\ \A i \in 0..Len(s) : c[i] \in Seq(S)
  BY <1>1, Selection
<1>3. PICK d : Selects(d, u, T) /\ Chosen(u, T) = d[Len(u)] /\ \A i \in 0..Len(u) : d[i] \in Seq(S)
  BY <1>1, Selection
<1>4. PICK e : Selects(e, v, T) /\ Chosen(v, T) = e[Len(v)] /\ \A i \in 0..Len(v) : e[i] \in Seq(S)
  BY <1>1, Selection
<1>10. /\ \A i \in 0..(Len(s) - 1) : c[i + 1] = IF s[i + 1] \in T THEN Append(c[i], s[i + 1]) ELSE c[i]
       /\ \A i \in 0..(Len(u) - 1) : d[i + 1] = IF u[i + 1] \in T THEN Append(d[i], u[i + 1]) ELSE d[i]
       /\ \A i \in 0..(Len(v) - 1) : e[i + 1] = IF v[i + 1] \in T THEN Append(e[i], v[i + 1]) ELSE e[i]
  <2>1. s \in Seq(S) /\ Selects(c, s, T) /\ Selects(d, u, T) /\ Selects(e, v, T)
    BY <1>1, <1>2, <1>3, <1>4
  <2>2. \A i \in 0..(Len(s) - 1) : c[i + 1] = IF s[i + 1] \in T THEN Append(c[i], s[i + 1]) ELSE c[i]
    BY <2>1, SelectionStep
  <2>3. \A i \in 0..(Len(u) - 1) : d[i + 1] = IF u[i + 1] \in T THEN Append(d[i], u[i + 1]) ELSE d[i]
    BY <2>1, SelectionStep
  <2>4. \A i \in 0..(Len(v) - 1) : e[i + 1] = IF v[i + 1] \in T THEN Append(e[i], v[i + 1]) ELSE e[i]
    BY <2>1, SelectionStep
  <2> QED BY <2>2, <2>3, <2>4
<1> DEFINE R == {i \in 0..Len(u) : c[i] = d[i]}
<1>5. 0 \in R /\ \A i \in 0..(Len(u) - 1) : i \in R => i + 1 \in R
  <2>1. c[0] = <<>> /\ d[0] = <<>>
    BY <1>2, <1>3 DEF Selects
  <2>2. ASSUME NEW i \in 0..(Len(u) - 1), c[i] = d[i] PROVE c[i + 1] = d[i + 1]
    <3>1. i \in 0..(Len(s) - 1) /\ i + 1 \in 1..Len(u)
      BY <1>1
    <3>2. c[i + 1] = IF s[i + 1] \in T THEN Append(c[i], s[i + 1]) ELSE c[i]
      BY <1>10, <3>1
    <3>3. d[i + 1] = IF u[i + 1] \in T THEN Append(d[i], u[i + 1]) ELSE d[i]
      BY <1>10
    <3>4. s[i + 1] = u[i + 1]
      BY <1>1, <3>1
    <3> QED BY <2>2, <3>2, <3>3, <3>4
  <2> QED BY <1>1, <2>1, <2>2
<1>6. c[Len(u)] = d[Len(u)]
  <2>1. 0..Len(u) \subseteq R
    <3> HIDE DEF R
    <3> QED BY <1>1, <1>5, UpTo
  <2> QED BY <1>1, <2>1
<1> DEFINE Q == {i \in 0..Len(v) : c[Len(u) + i] = d[Len(u)] \o e[i]}
<1>7. d[Len(u)] \in Seq(S)
  BY <1>1, <1>3
<1>8. 0 \in Q /\ \A i \in 0..(Len(v) - 1) : i \in Q => i + 1 \in Q
  <2>1. c[Len(u) + 0] = d[Len(u)] \o e[0]
    <3>1. e[0] = <<>> /\ Len(u) + 0 = Len(u)
      BY <1>1, <1>4 DEF Selects
    <3>2. d[Len(u)] \o <<>> = d[Len(u)]
      BY <1>7
    <3> QED BY <1>6, <3>1, <3>2
  <2>2. ASSUME NEW i \in 0..(Len(v) - 1), c[Len(u) + i] = d[Len(u)] \o e[i]
        PROVE  c[Len(u) + (i + 1)] = d[Len(u)] \o e[i + 1]
    <3>1. Len(u) + i \in 0..(Len(s) - 1) /\ i + 1 \in 1..Len(v) /\ (Len(u) + i) + 1 = Len(u) + (i + 1)
      BY <1>1
    <3>2. c[Len(u) + (i + 1)] =
            IF s[Len(u) + (i + 1)] \in T THEN Append(c[Len(u) + i], s[Len(u) + (i + 1)]) ELSE c[Len(u) + i]
      BY <1>10, <3>1
    <3>3. v[i + 1] \in S /\ e[i + 1] = IF v[i + 1] \in T THEN Append(e[i], v[i + 1]) ELSE e[i]
      BY <1>1, <1>10, <3>1
    <3>4. s[Len(u) + (i + 1)] = v[i + 1]
      BY <1>1, <3>1
    <3>5. e[i] \in Seq(S)
      BY <1>1, <1>4
    <3>6. d[Len(u)] \o Append(e[i], v[i + 1]) = Append(d[Len(u)] \o e[i], v[i + 1])
      <4>1. v[i + 1] \in S
        BY <3>3
      <4>2. PICK a, b, x : a = d[Len(u)] /\ b = e[i] /\ x = v[i + 1]
        OBVIOUS
      <4>3. a \in Seq(S) /\ b \in Seq(S) /\ x \in S
        BY <1>7, <3>5, <4>1, <4>2
      <4>4. a \o Append(b, x) = Append(a \o b, x)
        BY <4>3, Joined
      <4> QED BY <4>2, <4>4
    <3> QED BY <2>2, <3>2, <3>3, <3>4, <3>6
  <2>3. 0 \in 0..Len(v) /\ \A i \in 0..(Len(v) - 1) : i + 1 \in 0..Len(v)
    BY <1>1
  <2> QED BY <2>1, <2>2, <2>3
<1>9. c[Len(u) + Len(v)] = d[Len(u)] \o e[Len(v)]
  <2>1. 0..Len(v) \subseteq Q
    <3> HIDE DEF Q
    <3> QED BY <1>1, <1>8, UpTo
  <2>2. Len(v) \in Q
    <3> HIDE DEF Q
    <3> QED BY <1>1, <2>1
  <2> QED BY <2>2
<1> QED BY <1>1, <1>2, <1>3, <1>4, <1>9 DEF s

(***************************************************************************)
(* The APIs in the order of their groups.                                  *)
(***************************************************************************)
Documented(a) == a.group \in Range1(Groups)
Distinct(s) == \A i, j \in 1..Len(s) : s[i].id = s[j].id => i = j

LEMMA FourGroups ==
  /\ Range1(Groups) = {Groups[1], Groups[2], Groups[3], Groups[4]}
  /\ \A i, j \in 1..4 : Groups[i] = Groups[j] => i = j
<1>1. /\ DOMAIN Groups = 1..4
      /\ Groups[1] = "Auth" /\ Groups[2] = "Banking" /\ Groups[3] = "Asset" /\ Groups[4] = "Work"
  BY DEF Groups
<1>2. \A i : i \in 1..4 <=> i = 1 \/ i = 2 \/ i = 3 \/ i = 4
  OBVIOUS
<1>3. Range1(Groups) = {Groups[1], Groups[2], Groups[3], Groups[4]}
  BY <1>1, <1>2 DEF Range1
<1>4. \A i, j \in 1..4 : Groups[i] = Groups[j] => i = j
  BY <1>1, <1>2
<1> QED BY <1>3, <1>4

LEMMA ConcatRange ==
  ASSUME NEW S, NEW u \in Seq(S), NEW v \in Seq(S)
  PROVE  u \o v \in Seq(S) /\ Range1(u \o v) = Range1(u) \cup Range1(v)
<1>1. /\ u \o v \in Seq(S) /\ Len(u) \in Nat /\ Len(v) \in Nat /\ Len(u \o v) = Len(u) + Len(v)
      /\ DOMAIN u = 1..Len(u) /\ DOMAIN v = 1..Len(v) /\ DOMAIN (u \o v) = 1..(Len(u) + Len(v))
      /\ \A i \in 1..Len(u) : (u \o v)[i] = u[i] /\ i \in 1..(Len(u) + Len(v))
      /\ \A i \in 1..Len(v) : (u \o v)[Len(u) + i] = v[i] /\ Len(u) + i \in 1..(Len(u) + Len(v))
  OBVIOUS
<1>2. \A i \in 1..(Len(u) + Len(v)) : i \in 1..Len(u) \/ \E j \in 1..Len(v) : i = Len(u) + j
  <2> SUFFICES ASSUME NEW i \in 1..(Len(u) + Len(v)), i \notin 1..Len(u)
               PROVE  \E j \in 1..Len(v) : i = Len(u) + j
    OBVIOUS
  <2>1. i - Len(u) \in 1..Len(v) /\ i = Len(u) + (i - Len(u))
    BY <1>1
  <2> QED BY <2>1
<1> DEFINE s == u \o v
<1>3. \A i \in DOMAIN s : s[i] \in Range1(u) \cup Range1(v)
  <2> SUFFICES ASSUME NEW i \in 1..(Len(u) + Len(v)) PROVE s[i] \in Range1(u) \cup Range1(v)
    BY <1>1
  <2>1. CASE i \in 1..Len(u)
    BY <1>1, <2>1 DEF Range1
  <2>2. CASE \E j \in 1..Len(v) : i = Len(u) + j
    BY <1>1, <2>2 DEF Range1
  <2> QED BY <1>2, <2>1, <2>2
<1>4. Range1(u) \subseteq Range1(s) /\ Range1(v) \subseteq Range1(s)
  BY <1>1 DEF Range1
<1>5. u \o v = s /\ s \in Seq(S)
  BY <1>1
<1> HIDE DEF s
<1>6. Range1(s) \subseteq Range1(u) \cup Range1(v)
  BY <1>3 DEF Range1
<1> QED BY <1>4, <1>5, <1>6

LEMMA DistinctConcat ==
  ASSUME NEW S, NEW u \in Seq(S), NEW v \in Seq(S), Distinct(u), Distinct(v),
         \A x \in Range1(u), y \in Range1(v) : x.id # y.id
  PROVE  Distinct(u \o v)
<1> DEFINE s == u \o v
<1>1. /\ Len(u) \in Nat /\ Len(v) \in Nat /\ Len(s) = Len(u) + Len(v)
      /\ DOMAIN u = 1..Len(u) /\ DOMAIN v = 1..Len(v)
      /\ \A i \in 1..Len(s) : \/ i \in 1..Len(u) /\ s[i] = u[i]
                              \/ i - Len(u) \in 1..Len(v) /\ s[i] = v[i - Len(u)]
  OBVIOUS
<1> HIDE DEF s
<1>2. \A i \in 1..Len(u), j \in 1..Len(v) : u[i].id # v[j].id
  BY <1>1 DEF Range1
<1> SUFFICES ASSUME NEW i \in 1..Len(s), NEW j \in 1..Len(s), s[i].id = s[j].id PROVE i = j
  BY DEF Distinct, s
<1>3. CASE i \in 1..Len(u) /\ s[i] = u[i] /\ j \in 1..Len(u) /\ s[j] = u[j]
  BY <1>3 DEF Distinct
<1>4. CASE /\ i - Len(u) \in 1..Len(v) /\ s[i] = v[i - Len(u)]
           /\ j - Len(u) \in 1..Len(v) /\ s[j] = v[j - Len(u)]
  <2>1. i - Len(u) = j - Len(u)
    BY <1>4 DEF Distinct
  <2> QED BY <1>1, <2>1
<1> QED BY <1>1, <1>2, <1>3, <1>4

\* What is in one group, and what is in the four groups together.
LEMMA OfGroupFacts ==
  ASSUME NEW S, NEW s \in Seq(S), NEW g
  PROVE  /\ OfGroup(s, g) \in Seq(S)
         /\ Range1(OfGroup(s, g)) = {a \in Range1(s) : a.group = g}
BY ChosenRange DEF OfGroup

LEMMA GroupedFacts ==
  ASSUME NEW S, NEW s \in Seq(S)
  PROVE  /\ Grouped(s) \in Seq(S)
         /\ Range1(Grouped(s)) = {a \in Range1(s) : Documented(a)}
<1> DEFINE u(k) == OfGroup(s, Groups[k])
<1>1. \A k : u(k) \in Seq(S) /\ Range1(u(k)) = {a \in Range1(s) : a.group = Groups[k]}
  BY OfGroupFacts
<1> HIDE DEF u
<1> DEFINE p == u(1) \o u(2)
<1>2. p \in Seq(S) /\ Range1(p) = Range1(u(1)) \cup Range1(u(2))
  BY <1>1, ConcatRange
<1> HIDE DEF p
<1> DEFINE q == p \o u(3)
<1>3. q \in Seq(S) /\ Range1(q) = Range1(p) \cup Range1(u(3))
  BY <1>1, <1>2, ConcatRange
<1> HIDE DEF q
<1> DEFINE r == q \o u(4)
<1>4. r \in Seq(S) /\ Range1(r) = Range1(q) \cup Range1(u(4))
  BY <1>1, <1>3, ConcatRange
<1> HIDE DEF r
<1>5. Range1(r) = {a \in Range1(s) : Documented(a)}
  <2>1. \A a : Documented(a) <=> \/ a.group = Groups[1] \/ a.group = Groups[2]
                                 \/ a.group = Groups[3] \/ a.group = Groups[4]
    BY FourGroups DEF Documented
  <2> QED BY <1>1, <1>2, <1>3, <1>4, <2>1
<1>6. Grouped(s) = r
  BY DEF Grouped, u, p, q, r
<1> QED BY <1>4, <1>5, <1>6

LEMMA GroupedDistinct ==
  ASSUME NEW S, NEW s \in Seq(S),
         \A i, j \in 1..Len(s) : Documented(s[i]) /\ Documented(s[j]) /\ s[i].id = s[j].id => i = j
  PROVE  Distinct(Grouped(s))
<1> DEFINE u(k) == OfGroup(s, Groups[k])
<1>1. \A k : u(k) \in Seq(S) /\ Range1(u(k)) = {a \in Range1(s) : a.group = Groups[k]}
  BY OfGroupFacts
<1>2. \A k \in 1..4 : Groups[k] \in Range1(Groups)
  BY FourGroups
<1>3. DOMAIN s = 1..Len(s)
  OBVIOUS
<1>4. ASSUME NEW k \in 1..4 PROVE Distinct(u(k))
  <2> DEFINE T == {a \in Range1(s) : a.group = Groups[k]}
  <2>1. \A i, j \in 1..Len(s) : s[i] \in T /\ s[j] \in T /\ s[i].id = s[j].id => i = j
    BY <1>2 DEF Documented
  <2>2. u(k) = Chosen(s, T)
    BY DEF OfGroup
  <2> HIDE DEF T, u
  <2> QED BY <2>1, <2>2, ChosenDistinct DEF Distinct
<1>5. ASSUME NEW k \in 1..4, NEW l \in 1..4, k # l, NEW x \in Range1(u(k)), NEW y \in Range1(u(l)), x.id = y.id
      PROVE  FALSE
  <2>1. x \in Range1(s) /\ y \in Range1(s) /\ x.group = Groups[k] /\ y.group = Groups[l]
    BY <1>1, <1>5
  <2>2. Documented(x) /\ Documented(y)
    BY <1>2, <2>1 DEF Documented
  <2>3. PICK i \in 1..Len(s), j \in 1..Len(s) : x = s[i] /\ y = s[j]
    BY <1>3, <2>1 DEF Range1
  <2>4. i = j
    BY <1>5, <2>2, <2>3
  <2> QED BY <1>5, <2>1, <2>3, <2>4, FourGroups
<1> HIDE DEF u
<1>6. \A k, l \in 1..4 : k # l => \A x \in Range1(u(k)), y \in Range1(u(l)) : x.id # y.id
  BY <1>5
<1>7. /\ \A x \in Range1(u(1)), y \in Range1(u(2)) : x.id # y.id
      /\ \A x \in Range1(u(1)), y \in Range1(u(3)) : x.id # y.id
      /\ \A x \in Range1(u(2)), y \in Range1(u(3)) : x.id # y.id
      /\ \A x \in Range1(u(1)), y \in Range1(u(4)) : x.id # y.id
      /\ \A x \in Range1(u(2)), y \in Range1(u(4)) : x.id # y.id
      /\ \A x \in Range1(u(3)), y \in Range1(u(4)) : x.id # y.id
  BY <1>6
<1> DEFINE p == u(1) \o u(2)
<1>8. p \in Seq(S) /\ Range1(p) = Range1(u(1)) \cup Range1(u(2)) /\ Distinct(p)
  BY <1>1, <1>4, <1>7, ConcatRange, DistinctConcat
<1> HIDE DEF p
<1> DEFINE q == p \o u(3)
<1>9. q \in Seq(S) /\ Range1(q) = Range1(p) \cup Range1(u(3)) /\ Distinct(q)
  <2>1. \A x \in Range1(p), y \in Range1(u(3)) : x.id # y.id
    BY <1>7, <1>8
  <2> QED BY <1>1, <1>4, <1>8, <2>1, ConcatRange, DistinctConcat
<1> HIDE DEF q
<1>10. Distinct(q \o u(4))
  <2>1. \A x \in Range1(q), y \in Range1(u(4)) : x.id # y.id
    BY <1>7, <1>8, <1>9
  <2> QED BY <1>1, <1>4, <1>9, <2>1, DistinctConcat
<1>11. Grouped(s) = q \o u(4)
  BY DEF Grouped, u, p, q
<1> QED BY <1>10, <1>11

\* s is what is in each group, one group after the other.
Sorted(s, u) ==
  /\ s = u[1] \o u[2] \o u[3] \o u[4]
  /\ \A k \in 1..4 : \A a \in Range1(u[k]) : a.group = Groups[k]

LEMMA GroupedSorted ==
  ASSUME NEW S, NEW s \in Seq(S)
  PROVE  \E u \in [1..4 -> Seq(S)] : Sorted(Grouped(s), u)
<1> DEFINE u == [k \in 1..4 |-> OfGroup(s, Groups[k])]
<1>1. \A k \in 1..4 : u[k] \in Seq(S) /\ Range1(u[k]) = {a \in Range1(s) : a.group = Groups[k]}
  BY OfGroupFacts
<1>2. Grouped(s) = u[1] \o u[2] \o u[3] \o u[4]
  BY DEF Grouped
<1>3. u \in [1..4 -> Seq(S)]
  BY <1>1
<1> HIDE DEF u
<1>4. Sorted(Grouped(s), u)
  BY <1>1, <1>2 DEF Sorted
<1> QED BY <1>3, <1>4

\* A selection from sorted APIs takes from each group.
\* (\o by a name of its own, so that the provers do not look into it.)
Cat(u, v) == u \o v
Over(S, s) == s \in Seq(S)

LEMMA ChosenCat ==
  ASSUME NEW S, NEW u, Over(S, u), NEW v, Over(S, v), NEW T
  PROVE  Over(S, Cat(u, v)) /\ Chosen(Cat(u, v), T) = Cat(Chosen(u, T), Chosen(v, T))
<1>1. u \in Seq(S) /\ v \in Seq(S)
  BY DEF Over
<1>2. Chosen(u \o v, T) = Chosen(u, T) \o Chosen(v, T)
  BY <1>1, ChosenConcat
<1>3. u \o v \in Seq(S)
  BY <1>1
<1> QED BY <1>2, <1>3 DEF Cat, Over

LEMMA ChosenSorted ==
  ASSUME NEW S, NEW u \in [1..4 -> Seq(S)], NEW s, Sorted(s, u), NEW T
  PROVE  /\ s \in Seq(S)
         /\ Chosen(s, T) = Chosen(u[1], T) \o Chosen(u[2], T) \o Chosen(u[3], T) \o Chosen(u[4], T)
<1>1. PICK a, b, c, d : a = u[1] /\ b = u[2] /\ c = u[3] /\ d = u[4]
  OBVIOUS
<1>2. Over(S, a) /\ Over(S, b) /\ Over(S, c) /\ Over(S, d)
  BY <1>1 DEF Over
<1>3. s = Cat(Cat(Cat(a, b), c), d)
  BY <1>1 DEF Sorted, Cat
<1>4. Over(S, Cat(a, b)) /\ Chosen(Cat(a, b), T) = Cat(Chosen(a, T), Chosen(b, T))
  BY <1>2, ChosenCat
<1>5. Over(S, Cat(Cat(a, b), c)) /\ Chosen(Cat(Cat(a, b), c), T) = Cat(Chosen(Cat(a, b), T), Chosen(c, T))
  BY <1>2, <1>4, ChosenCat
<1>6. Over(S, s) /\ Chosen(s, T) = Cat(Chosen(Cat(Cat(a, b), c), T), Chosen(d, T))
  BY <1>2, <1>3, <1>5, ChosenCat
<1>7. Chosen(s, T) = Cat(Cat(Cat(Chosen(a, T), Chosen(b, T)), Chosen(c, T)), Chosen(d, T))
  BY <1>4, <1>5, <1>6
<1> QED BY <1>1, <1>6, <1>7 DEF Cat, Over

\* A selection from sorted APIs is sorted.
LEMMA SelectionSorted ==
  ASSUME NEW S, NEW u \in [1..4 -> Seq(S)], NEW s, Sorted(s, u), NEW T
  PROVE  \E w \in [1..4 -> Seq(S)] : Sorted(Chosen(s, T), w)
<1> DEFINE w == [k \in 1..4 |-> Chosen(u[k], T)]
<1>1. \A k \in 1..4 : u[k] \in Seq(S)
  OBVIOUS
<1>2. \A k \in 1..4 : w[k] \in Seq(S) /\ Range1(w[k]) = Range1(u[k]) \cap T
  BY <1>1, ChosenRange
<1>3. Chosen(s, T) = w[1] \o w[2] \o w[3] \o w[4]
  <2>1. Chosen(s, T) = Chosen(u[1], T) \o Chosen(u[2], T) \o Chosen(u[3], T) \o Chosen(u[4], T)
    BY ChosenSorted
  <2>2. w[1] = Chosen(u[1], T) /\ w[2] = Chosen(u[2], T) /\ w[3] = Chosen(u[3], T) /\ w[4] = Chosen(u[4], T)
    OBVIOUS
  <2> HIDE DEF w
  <2> QED BY <2>1, <2>2
<1>4. w \in [1..4 -> Seq(S)]
  BY <1>2
<1> HIDE DEF w
<1>5. Sorted(Chosen(s, T), w)
  BY <1>2, <1>3 DEF Sorted
<1> QED BY <1>4, <1>5

\* Grouping what is sorted leaves it as it is.
LEMMA SortedStays ==
  ASSUME NEW S, NEW u \in [1..4 -> Seq(S)], NEW s, Sorted(s, u)
  PROVE  Grouped(s) = s
<1>1. s \in Seq(S)
  BY ChosenSorted
<1>2. \A k \in 1..4 : Range1(u[k]) \subseteq Range1(s)
  <2>1. u[1] \in Seq(S) /\ u[2] \in Seq(S) /\ u[3] \in Seq(S) /\ u[4] \in Seq(S)
    OBVIOUS
  <2> DEFINE p == u[1] \o u[2]
  <2>2. p \in Seq(S) /\ Range1(p) = Range1(u[1]) \cup Range1(u[2])
    BY <2>1, ConcatRange
  <2>3. s = p \o u[3] \o u[4]
    BY DEF Sorted
  <2> HIDE DEF p
  <2> DEFINE q == p \o u[3]
  <2>4. q \in Seq(S) /\ Range1(q) = Range1(p) \cup Range1(u[3])
    BY <2>1, <2>2, ConcatRange
  <2>5. s = q \o u[4]
    BY <2>3
  <2> HIDE DEF q
  <2>6. Range1(s) = Range1(q) \cup Range1(u[4])
    BY <2>1, <2>4, <2>5, ConcatRange
  <2>7. \A k \in 1..4 : k = 1 \/ k = 2 \/ k = 3 \/ k = 4
    OBVIOUS
  <2> QED BY <2>2, <2>4, <2>6, <2>7
<1>3. ASSUME NEW k \in 1..4, NEW l \in 1..4
      PROVE  Chosen(u[l], {a \in Range1(s) : a.group = Groups[k]}) = IF k = l THEN u[k] ELSE <<>>
  <2> DEFINE T == {a \in Range1(s) : a.group = Groups[k]}
  <2>1. u[l] \in Seq(S) /\ \A a \in Range1(u[l]) : a \in Range1(s) /\ a.group = Groups[l]
    BY <1>2 DEF Sorted
  <2>2. CASE k = l
    <3>1. Range1(u[l]) \subseteq T
      BY <2>1, <2>2
    <3> HIDE DEF T
    <3>2. Chosen(u[l], T) = u[l]
      BY <2>1, <3>1, ChosenAll
    <3> QED BY <2>2, <3>2 DEF T
  <2>3. CASE k # l
    <3>1. Range1(u[l]) \cap T = {}
      BY <2>1, <2>3, FourGroups
    <3> HIDE DEF T
    <3>2. Chosen(u[l], T) = <<>>
      BY <2>1, <3>1, ChosenNone
    <3> QED BY <2>3, <3>2 DEF T
  <2> QED BY <2>2, <2>3
<1>4. ASSUME NEW k \in 1..4 PROVE OfGroup(s, Groups[k]) = u[k]
  <2> DEFINE T == {a \in Range1(s) : a.group = Groups[k]}
  <2>1. OfGroup(s, Groups[k]) = Chosen(s, T)
    BY DEF OfGroup
  <2>2. \A l \in 1..4 : Chosen(u[l], T) = IF k = l THEN u[k] ELSE <<>>
    BY <1>3
  <2> HIDE DEF T
  <2>3. Chosen(s, T) = Chosen(u[1], T) \o Chosen(u[2], T) \o Chosen(u[3], T) \o Chosen(u[4], T)
    BY ChosenSorted
  <2>4. u[k] \in Seq(S)
    OBVIOUS
  <2>5. PICK x : x = u[k]
    OBVIOUS
  <2>6. x \o <<>> = x /\ <<>> \o x = x /\ <<>> \o <<>> = <<>>
    BY <2>4, <2>5
  <2>7. CASE k = 1
    BY <2>1, <2>2, <2>3, <2>5, <2>6, <2>7
  <2>8. CASE k = 2
    BY <2>1, <2>2, <2>3, <2>5, <2>6, <2>8
  <2>9. CASE k = 3
    BY <2>1, <2>2, <2>3, <2>5, <2>6, <2>9
  <2>10. CASE k = 4
    BY <2>1, <2>2, <2>3, <2>5, <2>6, <2>10
  <2> QED BY <2>7, <2>8, <2>9, <2>10
<1>5. Grouped(s) = u[1] \o u[2] \o u[3] \o u[4]
  BY <1>4 DEF Grouped
<1> QED BY <1>5 DEF Sorted

(***************************************************************************)
(* The APIs of a run.                                                      *)
(***************************************************************************)
WellMade(a) == "group" \in DOMAIN a /\ (Documented(a) => "id" \in DOMAIN a)

\* Revisions and corrections leave an API's group and id as they are.
LEMMA Kept ==
  ASSUME NEW a, WellMade(a)
  PROVE  /\ WellMade(Revised(a)) /\ Revised(a).group = a.group
         /\ WellMade(Corrected(a)) /\ Corrected(a).group = a.group
         /\ Documented(a) => Revised(a).id = a.id /\ Corrected(a).id = a.id
<1>1. DOMAIN Revised(a) = DOMAIN a /\ DOMAIN Corrected(a) = DOMAIN a
  BY DEF Revised, Corrected
<1>2. Revised(a).group = a.group /\ Corrected(a).group = a.group
  BY DEF Revised, Corrected, WellMade
<1>3. "id" \in DOMAIN a => Revised(a).id = a.id /\ Corrected(a).id = a.id
  BY DEF Revised, Corrected
<1> QED BY <1>1, <1>2, <1>3 DEF WellMade, Documented

Fixed(s) == [i \in DOMAIN s |-> Corrected(s[i])]

LEMMA FixedOver ==
  ASSUME NEW S, NEW u, Over(S, u)
  PROVE  Over({Corrected(a) : a \in S}, Fixed(u))
<1>1. Len(u) \in Nat /\ DOMAIN u = 1..Len(u) /\ \A i \in 1..Len(u) : u[i] \in S
  BY DEF Over
<1>2. \A i \in 1..Len(u) : Corrected(u[i]) \in {Corrected(a) : a \in S}
  BY <1>1
<1>3. Fixed(u) = [i \in 1..Len(u) |-> Corrected(u[i])]
  BY <1>1 DEF Fixed
<1> QED BY <1>1, <1>2, <1>3 DEF Over

LEMMA FixedCat ==
  ASSUME NEW S, NEW u, Over(S, u), NEW v, Over(S, v)
  PROVE  Fixed(Cat(u, v)) = Cat(Fixed(u), Fixed(v))
<1>1. /\ u \in Seq(S) /\ v \in Seq(S) /\ Len(u) \in Nat /\ Len(v) \in Nat
      /\ DOMAIN u = 1..Len(u) /\ DOMAIN v = 1..Len(v)
  BY DEF Over
<1> DEFINE w == u \o v
<1>3. /\ DOMAIN w = 1..(Len(u) + Len(v))
      /\ \A i \in 1..(Len(u) + Len(v)) : w[i] = IF i <= Len(u) THEN u[i] ELSE v[i - Len(u)]
  BY <1>1
<1>4. /\ Fixed(u) = [i \in 1..Len(u) |-> Corrected(u[i])]
      /\ Fixed(v) = [i \in 1..Len(v) |-> Corrected(v[i])]
  BY <1>1 DEF Fixed
<1>5. Fixed(w) = [i \in 1..(Len(u) + Len(v)) |-> Corrected(w[i])]
  BY <1>3 DEF Fixed
<1>6. Fixed(u) \o Fixed(v) =
        [i \in 1..(Len(u) + Len(v)) |->
           IF i <= Len(u) THEN Corrected(u[i]) ELSE Corrected(v[i - Len(u)])]
  BY <1>1, <1>4
<1>7. Fixed(w) = Fixed(u) \o Fixed(v)
  <2> HIDE DEF w
  <2> QED BY <1>3, <1>5, <1>6
<1> QED BY <1>7 DEF Cat

LEMMA FixedSorted ==
  ASSUME NEW S, NEW u \in [1..4 -> Seq(S)], NEW s, Sorted(s, u), \A a \in S : WellMade(a)
  PROVE  \E w \in [1..4 -> Seq({Corrected(a) : a \in S})] : Sorted(Fixed(s), w)
<1> DEFINE V == {Corrected(a) : a \in S}
           w == [k \in 1..4 |-> Fixed(u[k])]
<1>1. \A k \in 1..4 : Over(S, u[k])
  BY DEF Over
<1>2. \A k \in 1..4 : Over(V, w[k])
  BY <1>1, FixedOver
<1>3. w \in [1..4 -> Seq(V)]
  BY <1>2 DEF Over
<1>4. \A k \in 1..4 : \A a \in Range1(w[k]) : a.group = Groups[k]
  <2> SUFFICES ASSUME NEW k \in 1..4, NEW a \in Range1(w[k]) PROVE a.group = Groups[k]
    OBVIOUS
  <2>1. DOMAIN w[k] = DOMAIN u[k] /\ \A i \in DOMAIN u[k] : w[k][i] = Corrected(u[k][i])
    BY DEF Fixed
  <2>2. PICK i \in DOMAIN u[k] : a = Corrected(u[k][i])
    BY <2>1 DEF Range1
  <2>3. u[k][i] \in S
    OBVIOUS
  <2>4. u[k][i].group = Groups[k]
    BY DEF Sorted, Range1
  <2> QED BY <2>2, <2>3, <2>4, Kept
<1>5. Fixed(s) = w[1] \o w[2] \o w[3] \o w[4]
  <2>1. PICK a, b, c, d : a = u[1] /\ b = u[2] /\ c = u[3] /\ d = u[4]
    OBVIOUS
  <2>2. Over(S, a) /\ Over(S, b) /\ Over(S, c) /\ Over(S, d)
    BY <1>1, <2>1
  <2>3. s = Cat(Cat(Cat(a, b), c), d)
    BY <2>1 DEF Sorted, Cat
  <2>4. Over(S, Cat(a, b)) /\ Over(S, Cat(Cat(a, b), c))
    BY <2>2, ChosenCat
  <2>5. Fixed(s) = Cat(Cat(Cat(Fixed(a), Fixed(b)), Fixed(c)), Fixed(d))
    <3>1. Fixed(Cat(a, b)) = Cat(Fixed(a), Fixed(b))
      BY <2>2, FixedCat
    <3>2. Fixed(Cat(Cat(a, b), c)) = Cat(Fixed(Cat(a, b)), Fixed(c))
      BY <2>2, <2>4, FixedCat
    <3>3. Fixed(s) = Cat(Fixed(Cat(Cat(a, b), c)), Fixed(d))
      BY <2>2, <2>3, <2>4, FixedCat
    <3> QED BY <3>1, <3>2, <3>3
  <2>6. w[1] = Fixed(a) /\ w[2] = Fixed(b) /\ w[3] = Fixed(c) /\ w[4] = Fixed(d)
    BY <2>1
  <2> HIDE DEF w
  <2> QED BY <2>5, <2>6 DEF Cat
<1> HIDE DEF w
<1>6. Sorted(Fixed(s), w)
  BY <1>4, <1>5 DEF Sorted
<1> QED BY <1>3, <1>6

\* What the manifest and new_auth say of an API is so after the revisions.
RevisedApis == [i \in DOMAIN manifest.apis |-> Revised(manifest.apis[i])]
Collected == Grouped(RevisedApis) \o NewAuth
Source == Range1(manifest.apis) \cup Range1(NewAuth)
Reworked == Source \cup {Revised(a) : a \in Source}

LEMMA SourceFacts ==
  ASSUME manifest \in Manifests
  PROVE  /\ Len(manifest.apis) \in Nat /\ DOMAIN manifest.apis = 1..Len(manifest.apis)
         /\ Len(NewAuth) \in Nat /\ DOMAIN NewAuth = 1..Len(NewAuth)
         /\ \A a \in Source : WellMade(a)
         /\ \A a \in Reworked : WellMade(a)
         /\ \A i, j \in 1..Len(manifest.apis) :
              /\ Documented(manifest.apis[i]) /\ Documented(manifest.apis[j])
              /\ manifest.apis[i].id = manifest.apis[j].id
              => i = j
         /\ \A i, j \in 1..Len(NewAuth) :
              Documented(NewAuth[i]) /\ Documented(NewAuth[j]) /\ NewAuth[i].id = NewAuth[j].id => i = j
         /\ \A i \in 1..Len(manifest.apis), j \in 1..Len(NewAuth) :
              Documented(manifest.apis[i]) /\ Documented(NewAuth[j]) => manifest.apis[i].id # NewAuth[j].id
<1> DEFINE all == manifest.apis \o NewAuth
<1>1. PICK m, n : m = manifest.apis /\ n = NewAuth
  OBVIOUS
<1>2. /\ m \in Seq(Range1(m)) /\ n \in Seq(Range1(n))
      /\ \A i \in DOMAIN (m \o n) : WellMade((m \o n)[i])
      /\ \A i, j \in DOMAIN (m \o n) :
           Documented((m \o n)[i]) /\ Documented((m \o n)[j]) /\ (m \o n)[i].id = (m \o n)[j].id => i = j
  BY <1>1, ApiAssumption DEF WellMade, Documented
<1>3. Len(m) \in Nat /\ DOMAIN m = 1..Len(m) /\ Len(n) \in Nat /\ DOMAIN n = 1..Len(n)
  BY <1>2
<1> DEFINE c == m \o n
<1>4. /\ DOMAIN c = 1..(Len(m) + Len(n))
      /\ \A i \in 1..Len(m) : i \in 1..(Len(m) + Len(n)) /\ c[i] = m[i]
      /\ \A i \in 1..Len(n) : Len(m) + i \in 1..(Len(m) + Len(n)) /\ c[Len(m) + i] = n[i]
  BY <1>2, <1>3
<1>5. /\ \A i \in DOMAIN c : WellMade(c[i])
      /\ \A i, j \in DOMAIN c : Documented(c[i]) /\ Documented(c[j]) /\ c[i].id = c[j].id => i = j
  BY <1>2
<1> HIDE DEF c
<1>6. /\ \A i \in 1..Len(m) : WellMade(m[i])
      /\ \A i \in 1..Len(n) : WellMade(n[i])
  BY <1>4, <1>5
<1>7. \A a \in Source : WellMade(a)
  BY <1>1, <1>3, <1>6 DEF Source, Range1
<1>8. \A a \in Reworked : WellMade(a)
  BY <1>7, Kept DEF Reworked
<1>9. \A i, j \in 1..Len(m) : Documented(m[i]) /\ Documented(m[j]) /\ m[i].id = m[j].id => i = j
  BY <1>4, <1>5
<1>10. \A i, j \in 1..Len(n) : Documented(n[i]) /\ Documented(n[j]) /\ n[i].id = n[j].id => i = j
  <2> SUFFICES ASSUME NEW i \in 1..Len(n), NEW j \in 1..Len(n),
                      Documented(n[i]), Documented(n[j]), n[i].id = n[j].id
               PROVE  i = j
    OBVIOUS
  <2>1. Len(m) + i = Len(m) + j
    BY <1>4, <1>5
  <2> QED BY <1>3, <2>1
<1>11. \A i \in 1..Len(m), j \in 1..Len(n) : Documented(m[i]) /\ Documented(n[j]) => m[i].id # n[j].id
  <2> SUFFICES ASSUME NEW i \in 1..Len(m), NEW j \in 1..Len(n),
                      Documented(m[i]), Documented(n[j]), m[i].id = n[j].id
               PROVE  FALSE
    OBVIOUS
  <2>1. i = Len(m) + j
    BY <1>4, <1>5
  <2> QED BY <1>3, <2>1
<1> QED BY <1>1, <1>3, <1>7, <1>8, <1>9, <1>10, <1>11

\* With the new ones: whoever is documented has an id of its own, and the ids
\* are those of the manifest and of new_auth.
LEMMA CollectedFacts ==
  ASSUME manifest \in Manifests
  PROVE  /\ Collected \in Seq(Reworked)
         /\ \A i, j \in 1..Len(Collected) :
              /\ Documented(Collected[i]) /\ Documented(Collected[j])
              /\ Collected[i].id = Collected[j].id
              => i = j
         /\ {a.id : a \in {b \in Range1(Collected) : Documented(b)}} =
            {a.id : a \in {b \in Source : Documented(b)}}
<1>1. PICK m, n, r, g : m = manifest.apis /\ n = NewAuth /\ r = RevisedApis /\ g = Grouped(r)
  OBVIOUS
<1>2. /\ Len(m) \in Nat /\ DOMAIN m = 1..Len(m) /\ Len(n) \in Nat /\ DOMAIN n = 1..Len(n)
      /\ \A a \in Source : WellMade(a)
      /\ \A i, j \in 1..Len(m) : Documented(m[i]) /\ Documented(m[j]) /\ m[i].id = m[j].id => i = j
      /\ \A i, j \in 1..Len(n) : Documented(n[i]) /\ Documented(n[j]) /\ n[i].id = n[j].id => i = j
      /\ \A i \in 1..Len(m), j \in 1..Len(n) :
           Documented(m[i]) /\ Documented(n[j]) => m[i].id # n[j].id
  BY <1>1, SourceFacts
<1>3. /\ \A i \in 1..Len(m) : m[i] \in Source
      /\ \A i \in 1..Len(n) : n[i] \in Source
  BY <1>1, <1>2 DEF Source, Range1
<1>4. r = [i \in 1..Len(m) |-> Revised(m[i])]
  BY <1>1, <1>2 DEF RevisedApis
<1>5. \A i \in 1..Len(m) : /\ r[i] \in Reworked /\ (Documented(r[i]) <=> Documented(m[i]))
                           /\ Documented(m[i]) => r[i].id = m[i].id
  <2> SUFFICES ASSUME NEW i \in 1..Len(m)
               PROVE  /\ r[i] \in Reworked /\ (Documented(r[i]) <=> Documented(m[i]))
                      /\ Documented(m[i]) => r[i].id = m[i].id
    OBVIOUS
  <2>1. r[i] = Revised(m[i]) /\ m[i] \in Source /\ WellMade(m[i])
    BY <1>2, <1>3, <1>4
  <2>2. Revised(m[i]).group = m[i].group /\ (Documented(m[i]) => Revised(m[i]).id = m[i].id)
    BY <2>1, Kept
  <2> QED BY <2>1, <2>2 DEF Documented, Reworked
<1>6. r \in Seq(Reworked) /\ Len(r) = Len(m) /\ DOMAIN r = 1..Len(m)
  BY <1>2, <1>4, <1>5
<1>7. Distinct(g)
  <2>1. \A i, j \in 1..Len(r) : Documented(r[i]) /\ Documented(r[j]) /\ r[i].id = r[j].id => i = j
    BY <1>2, <1>5, <1>6
  <2> QED BY <1>1, <1>6, <2>1, GroupedDistinct
<1>8. g \in Seq(Reworked) /\ Range1(g) = {a \in Range1(r) : Documented(a)}
  BY <1>1, <1>6, GroupedFacts
<1>9. n \in Seq(Reworked)
  <2>1. n = [i \in 1..Len(n) |-> n[i]]
    BY <1>1, <1>2, ApiAssumption
  <2>2. \A i \in 1..Len(n) : n[i] \in Reworked
    BY <1>3 DEF Reworked
  <2> QED BY <1>2, <2>1, <2>2
<1>10. Collected = g \o n
  BY <1>1 DEF Collected
<1>11. g \o n \in Seq(Reworked) /\ Range1(g \o n) = Range1(g) \cup Range1(n)
  BY <1>8, <1>9, ConcatRange
<1>12. \A i \in 1..Len(g) : \E k \in 1..Len(m) : g[i].id = m[k].id /\ Documented(m[k])
  <2> SUFFICES ASSUME NEW i \in 1..Len(g) PROVE \E k \in 1..Len(m) : g[i].id = m[k].id /\ Documented(m[k])
    OBVIOUS
  <2>1. g[i] \in Range1(g)
    BY <1>8 DEF Range1
  <2>2. PICK k \in 1..Len(m) : g[i] = r[k]
    BY <1>6, <1>8, <2>1 DEF Range1
  <2> QED BY <1>5, <1>8, <2>1, <2>2
<1>13. ASSUME NEW i \in 1..Len(g \o n), NEW j \in 1..Len(g \o n),
              Documented((g \o n)[i]), Documented((g \o n)[j]), (g \o n)[i].id = (g \o n)[j].id
       PROVE  i = j
  <2> DEFINE c == g \o n
  <2>1. /\ Len(g) \in Nat /\ Len(n) \in Nat
        /\ \A k \in 1..Len(c) : \/ k \in 1..Len(g) /\ c[k] = g[k]
                                \/ k - Len(g) \in 1..Len(n) /\ c[k] = n[k - Len(g)]
    BY <1>8, <1>9
  <2>2. i \in 1..Len(c) /\ j \in 1..Len(c) /\ Documented(c[i]) /\ Documented(c[j]) /\ c[i].id = c[j].id
    BY <1>13
  <2> HIDE DEF c
  <2>3. CASE i \in 1..Len(g) /\ c[i] = g[i] /\ j \in 1..Len(g) /\ c[j] = g[j]
    BY <1>7, <2>2, <2>3 DEF Distinct
  <2>4. CASE /\ i - Len(g) \in 1..Len(n) /\ c[i] = n[i - Len(g)]
             /\ j - Len(g) \in 1..Len(n) /\ c[j] = n[j - Len(g)]
    <3>1. i - Len(g) = j - Len(g)
      BY <1>2, <2>2, <2>4
    <3> QED BY <2>1, <2>2, <3>1
  <2>5. CASE \/ i \in 1..Len(g) /\ c[i] = g[i] /\ j - Len(g) \in 1..Len(n) /\ c[j] = n[j - Len(g)]
             \/ j \in 1..Len(g) /\ c[j] = g[j] /\ i - Len(g) \in 1..Len(n) /\ c[i] = n[i - Len(g)]
    <3>1. \A k \in 1..Len(g), l \in 1..Len(n) : Documented(n[l]) => g[k].id # n[l].id
      BY <1>2, <1>12
    <3> QED BY <2>2, <2>5, <3>1
  <2> QED BY <2>1, <2>2, <2>3, <2>4, <2>5
<1>14. {a.id : a \in {b \in Range1(g \o n) : Documented(b)}} = {a.id : a \in {b \in Source : Documented(b)}}
  <2> DEFINE L == {b \in Range1(g \o n) : Documented(b)}
             K == {b \in Source : Documented(b)}
  <2>1. ASSUME NEW b \in L PROVE \E a \in K : a.id = b.id
    <3>1. CASE b \in Range1(n)
      BY <1>1, <2>1, <3>1 DEF Source
    <3>2. CASE b \in Range1(g)
      <4>1. PICK i \in 1..Len(g) : b = g[i]
        BY <1>8, <3>2 DEF Range1
      <4>2. PICK k \in 1..Len(m) : b.id = m[k].id /\ Documented(m[k])
        BY <1>12, <4>1
      <4> QED BY <1>3, <4>2
    <3> QED BY <1>11, <2>1, <3>1, <3>2
  <2>2. ASSUME NEW a \in K PROVE \E b \in L : b.id = a.id
    <3>1. CASE a \in Range1(n)
      BY <1>11, <2>2, <3>1
    <3>2. CASE a \in Range1(m)
      <4>1. PICK i \in 1..Len(m) : a = m[i]
        BY <1>2, <3>2 DEF Range1
      <4>2. r[i] \in Range1(r) /\ Documented(r[i]) /\ r[i].id = a.id
        BY <1>5, <1>6, <2>2, <4>1 DEF Range1
      <4>3. r[i] \in Range1(g)
        BY <1>8, <4>2
      <4> QED BY <1>11, <4>2, <4>3
    <3> QED BY <1>1, <2>2, <3>1, <3>2 DEF Source
  <2> HIDE DEF L, K
  <2>3. {a.id : a \in L} = {a.id : a \in K}
    BY <2>1, <2>2
  <2> QED BY <2>3 DEF L, K
<1> QED BY <1>10, <1>11, <1>13, <1>14

LEMMA ApisFacts ==
  ASSUME manifest \in Manifests
  PROVE  \E S : /\ Apis \in Seq(S) /\ Distinct(Apis)
                /\ \E u \in [1..4 -> Seq(S)] : Sorted(Apis, u)
                /\ {a.id : a \in Range1(Apis)} = {a.id : a \in {b \in Source : Documented(b)}}
<1> DEFINE S == {Corrected(a) : a \in Reworked}
<1>1. PICK c, g : c = Collected /\ g = Grouped(c)
  OBVIOUS
<1>2. /\ c \in Seq(Reworked)
      /\ \A i, j \in 1..Len(c) : Documented(c[i]) /\ Documented(c[j]) /\ c[i].id = c[j].id => i = j
      /\ {a.id : a \in {b \in Range1(c) : Documented(b)}} = {a.id : a \in {b \in Source : Documented(b)}}
  BY <1>1, CollectedFacts
<1>3. g \in Seq(Reworked) /\ Range1(g) = {a \in Range1(c) : Documented(a)}
  BY <1>1, <1>2, GroupedFacts
<1>4. Distinct(g)
  BY <1>1, <1>2, GroupedDistinct
<1>5. Apis = Fixed(g)
  BY <1>1 DEF Apis, Fixed, Collected, RevisedApis
<1>6. \A a \in Reworked : WellMade(a)
  BY SourceFacts
<1>7. PICK u \in [1..4 -> Seq(Reworked)] : Sorted(g, u)
  BY <1>1, <1>2, GroupedSorted
<1>8. \E w \in [1..4 -> Seq(S)] : Sorted(Apis, w)
  BY <1>5, <1>6, <1>7, FixedSorted
<1>9. Len(g) \in Nat /\ DOMAIN g = 1..Len(g) /\ \A i \in 1..Len(g) : g[i] \in Reworked /\ g[i] \in Range1(g)
  BY <1>3 DEF Range1
<1>10. PICK p : p = Apis
  OBVIOUS
<1>11. p = [i \in 1..Len(g) |-> Corrected(g[i])] /\ \A i \in 1..Len(g) : Corrected(g[i]) \in S
  BY <1>5, <1>9, <1>10 DEF Fixed
<1>12. p \in Seq(S) /\ Len(p) = Len(g) /\ DOMAIN p = 1..Len(g)
  <2> HIDE DEF S
  <2> QED BY <1>9, <1>11
<1>13. \A i \in 1..Len(g) : p[i].id = g[i].id
  <2> SUFFICES ASSUME NEW i \in 1..Len(g) PROVE p[i].id = g[i].id
    OBVIOUS
  <2>1. WellMade(g[i]) /\ Documented(g[i])
    BY <1>3, <1>6, <1>9
  <2>2. p[i] = Corrected(g[i])
    BY <1>11
  <2> QED BY <2>1, <2>2, Kept
<1>14. Distinct(p)
  BY <1>4, <1>12, <1>13 DEF Distinct
<1>15. {a.id : a \in Range1(p)} = {a.id : a \in Range1(g)}
  <2> DEFINE P == Range1(p)
             G == Range1(g)
  <2>1. \A a \in P : \E b \in G : a.id = b.id
    BY <1>9, <1>12, <1>13 DEF Range1
  <2>2. \A b \in G : \E a \in P : a.id = b.id
    BY <1>9, <1>12, <1>13 DEF Range1
  <2> HIDE DEF P, G
  <2>3. {a.id : a \in P} = {a.id : a \in G}
    BY <2>1, <2>2
  <2> QED BY <2>3 DEF P, G
<1> HIDE DEF S
<1> QED BY <1>2, <1>3, <1>8, <1>10, <1>12, <1>14, <1>15

\* The index and the sections are made from the same APIs in the same order.
LEMMA IndexAsSections ==
  ASSUME manifest \in Manifests
  PROVE  Sections(Apis) = Ordered(Apis)
<1>1. PICK S : Apis \in Seq(S) /\ \E u \in [1..4 -> Seq(S)] : Sorted(Apis, u)
  BY ApisFacts
<1>2. PICK u \in [1..4 -> Seq(S)] : Sorted(Apis, u)
  BY <1>1
<1>3. PICK w \in [1..4 -> Seq(S)] : Sorted(ForAll(Apis), w)
  BY <1>2, SelectionSorted DEF ForAll
<1>4. Grouped(ForAll(Apis)) = ForAll(Apis)
  BY <1>3, SortedStays
<1> QED BY <1>4 DEF Sections, Ordered

LEMMA OrderedFacts ==
  ASSUME manifest \in Manifests
  PROVE  /\ Ordered(Apis) \in Seq(Range1(Ordered(Apis))) /\ Distinct(Ordered(Apis))
         /\ {a.id : a \in Range1(Ordered(Apis))} = {a.id : a \in {b \in Source : Documented(b)}}
<1>1. PICK S : /\ Apis \in Seq(S) /\ Distinct(Apis)
               /\ {a.id : a \in Range1(Apis)} = {a.id : a \in {b \in Source : Documented(b)}}
  BY ApisFacts
<1>2. PICK s, x, y : s = Apis /\ x = ForAll(s) /\ y = ForOperators(s)
  OBVIOUS
<1>3. s \in Seq(S) /\ Distinct(s) /\ Len(s) \in Nat /\ DOMAIN s = 1..Len(s)
  BY <1>1, <1>2
<1>4. x \in Seq(S) /\ Range1(x) = {a \in Range1(s) : ~Policy(a)} /\ Distinct(x)
  <2> DEFINE T == {a \in Range1(s) : ~Policy(a)}
  <2>1. x = Chosen(s, T)
    BY <1>2 DEF ForAll
  <2>2. T \subseteq Range1(s)
    OBVIOUS
  <2> HIDE DEF T
  <2>3. x \in Seq(S) /\ Range1(x) = T
    <3>1. Chosen(s, T) \in Seq(S) /\ Range1(Chosen(s, T)) = Range1(s) \cap T
      BY <1>3, ChosenRange
    <3> QED BY <2>1, <2>2, <3>1
  <2>4. Distinct(x)
    BY <1>3, <2>1, ChosenDistinct DEF Distinct
  <2> QED BY <2>3, <2>4 DEF T
<1>5. y \in Seq(S) /\ Range1(y) = {a \in Range1(s) : Policy(a)} /\ Distinct(y)
  <2> DEFINE T == {a \in Range1(s) : Policy(a)}
  <2>1. y = Chosen(s, T)
    BY <1>2 DEF ForOperators
  <2>2. T \subseteq Range1(s)
    OBVIOUS
  <2> HIDE DEF T
  <2>3. y \in Seq(S) /\ Range1(y) = T
    <3>1. Chosen(s, T) \in Seq(S) /\ Range1(Chosen(s, T)) = Range1(s) \cap T
      BY <1>3, ChosenRange
    <3> QED BY <2>1, <2>2, <3>1
  <2>4. Distinct(y)
    BY <1>3, <2>1, ChosenDistinct DEF Distinct
  <2> QED BY <2>3, <2>4 DEF T
<1>6. \A a \in Range1(x), b \in Range1(y) : a.id # b.id
  <2> SUFFICES ASSUME NEW a \in Range1(x), NEW b \in Range1(y), a.id = b.id PROVE FALSE
    OBVIOUS
  <2>1. a \in Range1(s) /\ ~Policy(a) /\ b \in Range1(s) /\ Policy(b)
    BY <1>4, <1>5
  <2>2. PICK i \in 1..Len(s), j \in 1..Len(s) : a = s[i] /\ b = s[j]
    BY <1>3, <2>1 DEF Range1
  <2>3. i = j
    BY <1>3, <2>2 DEF Distinct
  <2> QED BY <2>1, <2>2, <2>3
<1>7. x \o y \in Seq(S) /\ Range1(x \o y) = Range1(x) \cup Range1(y) /\ Distinct(x \o y)
  BY <1>4, <1>5, <1>6, ConcatRange, DistinctConcat
<1>8. Ordered(Apis) = x \o y
  BY <1>2 DEF Ordered
<1>9. Range1(x \o y) = Range1(Apis)
  BY <1>2, <1>4, <1>5, <1>7
<1>10. Ordered(Apis) \in Seq(Range1(Ordered(Apis)))
  BY <1>7, <1>8, OwnRange DEF IsSeq
<1> QED BY <1>1, <1>7, <1>8, <1>9, <1>10

(***************************************************************************)
(* The index of a run.  What it names are the sections so far, followed by *)
(* those still to be written.                                              *)
(***************************************************************************)
Listed(ids, sections, rest) ==
  ids = [i \in 1..(Len(sections) + Len(rest)) |->
           IF i <= Len(sections) THEN sections[i].api.id ELSE rest[i - Len(sections)].id]

Complete(ids) ==
  /\ \A i, j \in DOMAIN ids : ids[i] = ids[j] => i = j
  /\ Range1(ids) = {a.id : a \in {b \in Source : Documented(b)}}

IndexInvariant ==
  /\ pc = Idle => story = <<>>
  /\ pc \in {"section", "walk", "guide", "cover"} =>
       IsSeq(queue) /\ Listed(index, story, queue) /\ Complete(index)
  /\ pc = "walk" => queue # <<>>
  /\ pc \in {"guide", "cover"} => queue = <<>>
  /\ pc = "cover" => guide.index = index

LEMMA IndexLoads ==
  ASSUME GuideInvariant, IndexInvariant, Load
  PROVE  IndexInvariant'
<1>1. manifest \in Manifests
  BY DEF GuideInvariant, ModelsInvariant
<1>2. PICK o : o = Ordered(Apis)
  OBVIOUS
<1>3. /\ o \in Seq(Range1(o)) /\ Distinct(o)
      /\ {a.id : a \in Range1(o)} = {a.id : a \in {b \in Source : Documented(b)}}
  BY <1>1, <1>2, OrderedFacts
<1>4. /\ pc' = "section" /\ queue' = o /\ story' = <<>> /\ manifest' = manifest
      /\ index' = [i \in DOMAIN o |-> o[i].id]
  <2>1. Sections(Apis) = o
    BY <1>1, <1>2, IndexAsSections
  <2> QED BY <1>2, <2>1 DEF Load, IndexInvariant, inputFiles
<1>5. Len(o) \in Nat /\ DOMAIN o = 1..Len(o)
  BY <1>3
<1>6. Listed(index', <<>>, o)
  <2>1. \A i \in 1..Len(o) : ~(i <= 0) /\ i - 0 = i
    BY <1>5
  <2> QED BY <1>4, <1>5, <2>1 DEF Listed
<1>7. Complete(index')
  <2>1. \A i, j \in DOMAIN index' : index'[i] = index'[j] => i = j
    BY <1>3, <1>4, <1>5 DEF Distinct
  <2>2. Range1(index') = {a.id : a \in Range1(o)}
    BY <1>4 DEF Range1
  <2> QED BY <1>3, <2>1, <2>2 DEF Complete
<1>8. Complete(index)'
  BY <1>4, <1>7 DEF Complete, Source
<1>9. Listed(index', story', queue') /\ IsSeq(queue')
  BY <1>3, <1>4, <1>6 DEF IsSeq
<1> QED BY <1>4, <1>8, <1>9 DEF IndexInvariant, Idle

LEMMA IndexCloses ==
  ASSUME GuideInvariant, IndexInvariant, CloseSection
  PROVE  IndexInvariant'
<1>1. PICK q, t, x : q = queue /\ t = story /\ x = [api |-> Head(q), inputs |-> inputs, rows |-> rows]
  OBVIOUS
<1>2. /\ pc = "walk" /\ pc' = "section" /\ manifest' = manifest /\ index' = index
      /\ queue' = Tail(q) /\ story' = Append(t, x)
  BY <1>1 DEF CloseSection, inputFiles
<1>3. IsSeq(q) /\ q # <<>> /\ Listed(index, t, q) /\ Complete(index)
  BY <1>1, <1>2 DEF IndexInvariant
<1>4. IsSeq(t)
  BY <1>1 DEF GuideInvariant, TypeOK, IsSeq
<1>5. /\ Len(q) \in Nat /\ Len(q) > 0 /\ q \in Seq(Range1(q)) /\ Head(q) = q[1]
      /\ Tail(q) \in Seq(Range1(q)) /\ Len(Tail(q)) = Len(q) - 1
      /\ \A i \in 1..(Len(q) - 1) : Tail(q)[i] = q[i + 1]
  BY <1>3 DEF IsSeq
<1>6. PICK r : r = Tail(q)
  OBVIOUS
<1>7. PICK u : u = Append(t, x)
  OBVIOUS
<1>8. /\ Len(t) \in Nat /\ Len(u) = Len(t) + 1 /\ u[Len(t) + 1] = x
      /\ \A i \in 1..Len(t) : u[i] = t[i]
  BY <1>4, <1>7 DEF IsSeq
<1>9. x.api = q[1]
  BY <1>1, <1>5
<1>10. Listed(index, u, r)
  <2>1. Len(u) + Len(r) = Len(t) + Len(q)
    BY <1>5, <1>6, <1>8
  <2>2. ASSUME NEW i \in 1..(Len(t) + Len(q))
        PROVE  (IF i <= Len(t) THEN t[i].api.id ELSE q[i - Len(t)].id)
               = (IF i <= Len(u) THEN u[i].api.id ELSE r[i - Len(u)].id)
    <3>1. CASE i <= Len(t)
      <4>1. i \in 1..Len(t) /\ i <= Len(u)
        BY <1>8, <3>1
      <4> QED BY <1>8, <3>1, <4>1
    <3>2. CASE i = Len(t) + 1
      <4>1. i - Len(t) = 1 /\ ~(i <= Len(t)) /\ i <= Len(u)
        BY <1>8, <3>2
      <4> QED BY <1>8, <1>9, <3>2, <4>1
    <3>3. CASE i > Len(t) + 1
      <4>1. /\ ~(i <= Len(t)) /\ ~(i <= Len(u)) /\ i - Len(u) \in 1..(Len(q) - 1)
            /\ (i - Len(u)) + 1 = i - Len(t)
        BY <1>5, <1>8, <3>3
      <4>2. r[i - Len(u)] = q[(i - Len(u)) + 1]
        BY <1>5, <1>6, <4>1
      <4> QED BY <4>1, <4>2
    <3> QED BY <1>8, <3>1, <3>2, <3>3
  <2>3. index = [i \in 1..(Len(t) + Len(q)) |-> IF i <= Len(t) THEN t[i].api.id ELSE q[i - Len(t)].id]
    BY <1>3 DEF Listed
  <2> QED BY <2>1, <2>2, <2>3 DEF Listed
<1>11. IsSeq(queue')
  BY <1>2, <1>5, OwnRange
<1>12. Listed(index, story, queue)'
  BY <1>2, <1>6, <1>7, <1>10 DEF Listed
<1>13. Complete(index)'
  BY <1>2, <1>3 DEF Complete, Source
<1> QED BY <1>2, <1>11, <1>12, <1>13 DEF IndexInvariant, Idle

LEMMA IndexStep ==
  ASSUME GuideInvariant, IndexInvariant, [Next]_vars
  PROVE  IndexInvariant'
<1>1. CASE Load
  BY <1>1, IndexLoads
<1>2. CASE CloseSection
  BY <1>2, IndexCloses
<1>3. CASE Edit
  <2>1. pc = Idle /\ pc' = Idle /\ story' = story
    BY <1>3 DEF Edit, memory
  <2> QED BY <2>1 DEF IndexInvariant, Idle
<1>4. CASE Forget
  BY <1>4 DEF Forget, IndexInvariant, Idle
<1>5. CASE OpenSection \/ Document \/ OpenGuide \/ SaveGuide \/ OpenCover
  <2>1. UNCHANGED <<manifest, queue, index, story>>
    BY <1>5 DEF OpenSection, Document, OpenGuide, SaveGuide, OpenCover, inputFiles, memory
  <2>2. \/ pc = "section" /\ pc' = "walk" /\ queue # <<>>
        \/ pc = "walk" /\ pc' = "walk"
        \/ pc = "section" /\ pc' = "guide" /\ queue = <<>>
        \/ pc = "guide" /\ pc' = "cover" /\ guide'.index = index
        \/ pc = "cover" /\ pc' = "counts"
    <3>1. SaveGuide => pc = "guide" /\ pc' = "cover" /\ guide'.index = index
      BY DEF SaveGuide
    <3>2. OpenGuide => pc = "section" /\ pc' = "guide" /\ queue = <<>>
      BY DEF OpenGuide
    <3>3. OpenSection => pc = "section" /\ pc' = "walk" /\ queue # <<>>
      BY DEF OpenSection
    <3>4. Document => pc = "walk" /\ pc' = "walk"
      BY DEF Document
    <3>5. OpenCover => pc = "cover" /\ pc' = "counts"
      BY DEF OpenCover
    <3> QED BY <1>5, <3>1, <3>2, <3>3, <3>4, <3>5
  <2>3. Complete(index) => Complete(index)'
    BY <2>1 DEF Complete, Source
  <2>4. IsSeq(queue) /\ Listed(index, story, queue) => (IsSeq(queue) /\ Listed(index, story, queue))'
    BY <2>1 DEF Listed, IsSeq
  <2> QED BY <2>1, <2>2, <2>3, <2>4 DEF IndexInvariant, Idle
<1>6. CASE Done \/ UNCHANGED vars
  <2>1. UNCHANGED <<pc, manifest, queue, index, story, guide>>
    BY <1>6 DEF Done, vars, inputFiles, memory, outputFiles
  <2> QED BY <2>1 DEF IndexInvariant, Listed, Complete, Source, IsSeq
<1> QED BY <1>1, <1>2, <1>3, <1>4, <1>5, <1>6 DEF Next, Fail, SaveCover, Crash

\* The index at the front of a saved guide names its sections in their order,
\* and every API of the four groups once: APIS is in the order of the groups
\* when ORDERED and the sections are made from it.
THEOREM GuideIndexIsContents == Spec => []IndexIsContents
<1>1. Init => IndexInvariant
  BY DEF Init, IndexInvariant, Idle
<1>2. GuideInvariant /\ IndexInvariant => IndexIsContents
  <2> SUFFICES ASSUME GuideInvariant, IndexInvariant, pc = "cover" PROVE IndexIsContents
    BY DEF IndexIsContents
  <2>1. /\ guide.story = story /\ guide.index = index /\ queue = <<>>
        /\ Listed(index, story, <<>>) /\ Complete(index)
    BY DEF GuideInvariant, FilesInvariant, IndexInvariant
  <2>2. Len(story) \in Nat /\ DOMAIN story = 1..Len(story)
    BY DEF GuideInvariant, TypeOK
  <2>3. index = [i \in DOMAIN story |-> story[i].api.id]
    BY <2>1, <2>2 DEF Listed
  <2> QED BY <2>1, <2>3 DEF IndexIsContents, Complete, Source, Documented
<1>3. GuideInvariant /\ IndexInvariant /\ [Next]_vars => IndexInvariant'
  BY IndexStep
<1> QED BY <1>1, <1>2, <1>3, InvariantHolds, PTL DEF Spec
=============================================================================
