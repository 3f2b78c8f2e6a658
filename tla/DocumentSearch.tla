--------------------------- MODULE DocumentSearch ---------------------------
(***************************************************************************)
(* How the Storage Node answers a query: a comparison of the indexed field *)
(* "id" is looked up in the links of the index; a comparison of any other  *)
(* field sorts all documents by that field and finds the equal ones with a *)
(* binary search on unsigned indices; "|" and "&" combine two results.     *)
(*                                                                         *)
(* Source: StorageNode/StorageNode.cpp.  FilterExpression reads the text of *)
(* the expression; the search evaluates the tree that comes out of it.      *)
(***************************************************************************)
EXTENDS FilterExpression, Integers

CONSTANTS
  Strings,     \* the quoted operands in the order of strings: ids and values
  MaxDocs,     \* bound on the documents of an entity
  MaxValue,    \* the values of a field are the first ones of Strings
  UintMax      \* the largest uint32: far above any index of the array

ASSUME SearchAssumption ==
  /\ Fields = {"id", "field"} /\ Quoted = {Strings[i] : i \in 1..Len(Strings)}
  /\ MaxDocs \in 0..Len(Strings) /\ MaxValue \in 1..Len(Strings)
  /\ UintMax \in Nat /\ UintMax > 2 * MaxDocs

VARIABLES
  docs,    \* the rank of the field's value in document 1, 2, ...; document i
           \* has the i-th string as its id
  answer   \* the documents found; Unanswered before

searchVars == <<vars, docs, answer>>

Unanswered == {0}

\* An operand as it is kept has a rank among strings: the empty one has 0.
Rank(operand) == IF operand = "" THEN 0 ELSE CHOOSE i \in 1..Len(Strings) : Strings[i] = operand

SearchInit ==
  /\ Init
  /\ docs = <<>> /\ answer = Unanswered

-----------------------------------------------------------------------------
(* The binary search.  Indices count from 0 and wrap around.                *)

NotFound == -1

\* The index left of a given one.
before(i) == IF i = 0 THEN UintMax ELSE i - 1

\* <<beginIndex, middle, endIndex>> where the value was found, or <<>>.  An
\* index outside the array makes the array grow by nulls up to it, which are
\* smaller than any string: the memory does not suffice, or nothing is found.
RECURSIVE getSearchIndex(_, _, _, _)
getSearchIndex(array, begin, end, value) ==
  LET middle == begin + ((end - begin) \div 2)
  IN IF end < begin \/ middle >= Len(array) THEN <<>>
     ELSE IF array[middle + 1] = value THEN <<begin, middle, end>>
     ELSE IF array[middle + 1] > value
          THEN getSearchIndex(array, begin, before(middle), value)
          ELSE getSearchIndex(array, middle + 1, end, value)

\* Mutant: the search for a lower index stops at the first hit.
lowest_FirstHit(array, hit, value) == hit[2]

\* getlowerIndex's loop, from a hit on.
RECURSIVE lowest(_, _, _)
lowest(array, hit, value) ==
  LET next == getSearchIndex(array, hit[1], before(hit[2]), value)
  IN IF hit[2] = 0 \/ next = <<>> THEN hit[2] ELSE lowest(array, next, value)

getlowerIndex(array, value) ==
  LET hit == getSearchIndex(array, 0, Len(array) - 1, value)
  IN IF hit = <<>> THEN NotFound ELSE lowest(array, hit, value)

\* getUpperIndex's loop.
RECURSIVE highest(_, _, _)
highest(array, hit, value) ==
  LET next == getSearchIndex(array, hit[2] + 1, hit[3], value)
  IN IF next = <<>> THEN hit[2] ELSE highest(array, next, value)

getUpperIndex(array, value) ==
  LET hit == getSearchIndex(array, 0, Len(array) - 1, value)
  IN IF hit = <<>> THEN NotFound ELSE highest(array, hit, value)

-----------------------------------------------------------------------------
(* The comparisons: the indices of the sorted array they keep.              *)

equals(array, v) == getlowerIndex(array, v)..getUpperIndex(array, v)
not_equals(array, v) ==
  (0..getlowerIndex(array, v) - 1) \cup (getUpperIndex(array, v) + 1..Len(array) - 1)
lessthan(array, v) == 0..getlowerIndex(array, v) - 1
lessthan_equals(array, v) == 0..getUpperIndex(array, v)
greaterthan_equals(array, v) == getUpperIndex(array, v)..Len(array) - 1
greaterthan(array, v) ==
  IF getUpperIndex(array, v) = Len(array) - 1 THEN {}
  ELSE getUpperIndex(array, v)..Len(array) - 1

\* All of them return nothing when the value is not found.
filtered(array, op, v) ==
  IF array = <<>> \/ getlowerIndex(array, v) = NotFound THEN {}
  ELSE CASE op = "="  -> equals(array, v)
         [] op = "<>" -> not_equals(array, v)
         [] op = "<"  -> lessthan(array, v)
         [] op = "<=" -> lessthan_equals(array, v)
         [] op = ">=" -> greaterthan_equals(array, v)
         [] op = ">"  -> greaterthan(array, v)

\* sortDocumentsByOperand: the orders std::sort may give, as lists of ids.
sortDocumentsByOperand(ds) ==
  LET idx == 1..Len(ds)
  IN {s \in [idx -> idx] : \A i, j \in idx : i < j => s[i] # s[j] /\ ds[s[i]] <= ds[s[j]]}

\* A result: an array of documents, the empty string, or an exception.
Array(ids) == [kind |-> "array", ids |-> ids]
EmptyString == [kind |-> "string", ids |-> {}]
Exception == [kind |-> "exception", ids |-> {}]

\* The search of a value below all others runs out of the array; without the
\* memory to grow it up to there, it throws.
mayThrow(ds, v) == ds # <<>> /\ \A i \in 1..Len(ds) : v < ds[i]

\* The index of "id" has one link, "__", that only "=" follows.  The others look
\* for the operand among the links: one that sorts after "__" finds their end, one
\* before it comes to a link that is no document; only "<" stops in front of it.
comparedIds(ds, op, v) ==
  CASE op = "=" -> IF v \in 1..Len(ds) THEN Array({v}) ELSE EmptyString
    [] op # "=" /\ v > 0 -> EmptyString
    [] op # "=" /\ v = 0 -> IF op = "<" THEN Array({}) ELSE Exception

\* The results a comparison may have.
compared(ds, op, field, v) ==
  IF field = "id" THEN {comparedIds(ds, op, v)}
  ELSE {LET array == [i \in 1..Len(ds) |-> ds[order[i]]]
        IN Array({order[i + 1] : i \in filtered(array, op, v)}) :
          order \in sortDocumentsByOperand(ds)}
       \cup {e \in {Exception} : mayThrow(ds, v)}

\* Mutant: both connectives intersect.
combined_Intersection(op, l, r) == Array(l.ids \cap r.ids)

\* "|" and "&".  The empty string does not count as empty, and union_ and
\* intersection throw when they read an element of it.
combined(op, l, r) ==
  LET exception == Exception \in {l, r}
      empty == Array({}) \in {l, r}
      string == EmptyString \in {l, r}
  IN CASE exception -> Exception
       [] ~exception /\ empty -> IF op = "&" THEN Array({}) ELSE IF l = Array({}) THEN r ELSE l
       [] ~exception /\ ~empty /\ string -> Exception
       [] OTHER -> Array(IF op = "|" THEN l.ids \cup r.ids ELSE l.ids \cap r.ids)

\* evaluateExpression: the results the tree may have.
RECURSIVE evaluateExpression(_, _)
evaluateExpression(ds, tree) ==
  IF tree[1] \in Connectives
  THEN {combined(tree[1], l, r) :
          l \in evaluateExpression(ds, tree[2]), r \in evaluateExpression(ds, tree[3])}
  ELSE compared(ds, tree[1], tree[2][1], Rank(tree[3][1]))

\* searchDocument, once the tree is built, and the answer findDocument sends;
\* after an exception it is empty.  The documents are those of the index the
\* search began with; nothing of the reading depends on them, so that they
\* are chosen here.
searchDocument ==
  /\ answer = Unanswered /\ Built
  /\ docs' \in UNION {[1..n -> 1..MaxValue] : n \in 0..MaxDocs}
  /\ \E result \in evaluateExpression(docs', Head(treePtrs)) : answer' = result.ids
  /\ UNCHANGED vars

SearchNext == searchDocument \/ (Next /\ UNCHANGED <<docs, answer>>)

SearchSpec == SearchInit /\ [][SearchNext]_searchVars

-----------------------------------------------------------------------------
(* Properties.                                                              *)

\* What the operators mean.
Holds(op, a, b) ==
  CASE op = "=" -> a = b [] op = "<>" -> a # b [] op = "<" -> a < b
    [] op = "<=" -> a <= b [] op = ">" -> a > b [] op = ">=" -> a >= b

\* The rank of a leaf's value, as it was meant; a number is none of the strings.
Value(c) == IF c[3][1] \in Numbers THEN 0 ELSE Rank(c[3][1])

\* What an expression means when its comparisons are read with as[op].
RECURSIVE Meant(_, _)
Meant(tree, as) ==
  CASE tree[1] = "|" -> Meant(tree[2], as) \cup Meant(tree[3], as)
    [] tree[1] = "&" -> Meant(tree[2], as) \cap Meant(tree[3], as)
    [] OTHER -> {i \in 1..Len(docs) :
                   Holds(as[tree[1]], IF tree[2][1] = "id" THEN i ELSE docs[i], Value(tree))}

RECURSIVE Leaves(_)
Leaves(tree) == IF tree[1] \in Connectives THEN Leaves(tree[2]) \cup Leaves(tree[3]) ELSE {tree}

RECURSIVE Joins(_)
Joins(tree) == IF tree[1] \in Connectives THEN {tree[1]} \cup Joins(tree[2]) \cup Joins(tree[3]) ELSE {}

Literally == [op \in CompareOps |-> op]
Strictly == [op \in CompareOps |-> IF op = ">=" THEN ">" ELSE op]
Weakly == [op \in CompareOps |-> IF op = ">" THEN ">=" ELSE op]

Answered == answer # Unanswered

\* Some document has the value the comparison is with.
Present(c) == IF c[2][1] = "id" THEN c[1] = "=" /\ Value(c) \in 1..Len(docs)
              ELSE \E i \in 1..Len(docs) : docs[i] = Value(c)

\* From the text of a filter to the answer: a filter whose comparisons are with
\* values that documents hold finds exactly the documents it means, also when
\* many of them hold the same value and whatever order the sort gives those:
\* the two binary searches end at the first and at the last of them.  Only of
\* the documents equal to the value, ">" may keep and ">=" may miss some.
PresentIsExact ==
  Answered /\ (\A c \in Leaves(meant) : Present(c)) =>
    Meant(meant, Strictly) \subseteq answer /\ answer \subseteq Meant(meant, Weakly)

\* Whether an equality finds its documents whatever it is joined with: its id
\* exists, or its value is not below all others.
Settled(c) == IF c[2][1] = "id" THEN Value(c) \in 1..Len(docs) ELSE ~mayThrow(docs, Value(c))

\* A filter of equalities, by id and by field, with values that documents hold or
\* not, never finds a document it does not mean.  It finds all it means if it has
\* no "|", or if every id it names exists and none of its values is below all
\* others: there a "|" loses its other side to the empty string of a missing id
\* (StorageNode.cpp:619) or to an index that wrapped around (StorageNode.cpp:267).
EqualityIsExact ==
  Answered /\ (\A c \in Leaves(meant) : c[1] = "=") =>
    /\ answer \subseteq Meant(meant, Literally)
    /\ "|" \notin Joins(meant) \/ (\A c \in Leaves(meant) : Settled(c))
         => answer = Meant(meant, Literally)

\* The operators find what they say, also at the bound: of the documents equal to
\* the value, ">=" finds all and ">" none.
BoundsAreExact ==
  Answered /\ (\A c \in Leaves(meant) : Present(c)) => answer = Meant(meant, Literally)

\* The result of "|" is that of both sides, with no duplicates: an id that does
\* not exist takes nothing from the other side.
UnionHasBothSides ==
  Answered /\ meant[1] = "|"
    /\ (\A c \in Leaves(meant) : c[1] = "=" /\ (c[2][1] = "field" => Settled(c)))
    => answer = Meant(meant, Literally)
=============================================================================
