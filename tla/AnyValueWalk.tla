---------------------------- MODULE AnyValueWalk ----------------------------
(***************************************************************************)
(* Bounding and converting OTLP values (otel-sqlite-ingress/src/mapping/   *)
(* common.rs and logs.rs): check_any_value and any_value_size walk a value *)
(* with an explicit stack before the recursive converter takes it.         *)
(*                                                                         *)
(* A value is a leaf with a length, or an array or key-value list of       *)
(* values; strings and bytes are their lengths.  A list also stands for    *)
(* the attributes of a record or a scope.                                  *)
(***************************************************************************)
EXTENDS Integers, Sequences, SequencesExt

CONSTANTS MaxDepth,   \* MAX_NESTING_DEPTH
          MaxKey,     \* max_attribute_key_bytes
          MaxLeaf,    \* max_attribute_value_bytes
          MaxBody,    \* max_body_bytes
          MaxAttributes, \* max_attributes_per_record
          ValueSize, KeySize, AttributeSize,  \* size_of AnyValue, KeyValue, Attribute
          InputDepth  \* bound: nesting of the values walked

WalkAssumption ==
    {MaxDepth, MaxKey, MaxLeaf, MaxBody, MaxAttributes, ValueSize, KeySize,
     AttributeSize, InputDepth} \subseteq Nat

VARIABLES value,  \* the value walked
          walk,   \* check_any_value, check_body, check_attributes,
                  \* any_value_size or scope_metadata_bytes
          stack, total, verdict

vars == <<value, walk, stack, total, verdict>>

Leaf(k, n) == [kind |-> k, len |-> n, items |-> <<>>]
Array(s)   == [kind |-> "array", len |-> 0, items |-> s]
Kvlist(s)  == [kind |-> "kvlist", len |-> 0, items |-> s]

\* An array item; an entry of a list, whose value may be absent.
Item(v)     == [key |-> 0, value |-> <<v>>]
Entry(k, v) == [key |-> k, value |-> v]

Leaves == {Leaf("string", MaxLeaf), Leaf("string", MaxLeaf + 1),
           Leaf("bytes", MaxLeaf + 1), Leaf("bytes", MaxBody + 1), Leaf("int", 0)}

\* The values nested at most d deep, over two-element containers.
Values[d \in Nat] ==
    IF d = 0 THEN Leaves
    ELSE LET smaller == Values[d - 1]
             entries == {Entry(k, v) : k \in {MaxKey, MaxKey + 1},
                                       v \in {<<>>} \cup {<<w>> : w \in smaller}}
         IN  smaller
             \cup {Array(<<>>), Kvlist(<<>>)}
             \cup {Array(<<Item(v)>>) : v \in smaller}
             \cup {Array(<<Item(v), Item(w)>>) : v \in smaller, w \in Leaves}
             \cup {Kvlist(<<e>>) : e \in entries}
             \cup {Kvlist(<<Entry(MaxKey, <<>>), e>>) : e \in entries}

IsContainer(v) == v.kind \in {"array", "kvlist"}

\* Nested values of a container, each with the depth it is pushed with.
Nested(v, depth) ==
    FoldLeft(LAMBDA s, e : IF e.value = <<>> THEN s
                           ELSE Append(s, [v |-> e.value[1], depth |-> depth + 1]),
             <<>>, v.items)

-----------------------------------------------------------------------------
(* The walks *)

\* Mutant of Refused: keys of nested lists are not looked at.
RefusedKeysUnseen(top) ==
    \/ top.v.kind \in {"string", "bytes"} /\ top.v.len > MaxLeaf
    \/ IsContainer(top.v) /\ top.depth >= MaxDepth

\* One round of check_any_value's loop refuses.
Refused(top) ==
    \/ top.v.kind \in {"string", "bytes"} /\ top.v.len > MaxLeaf
    \/ IsContainer(top.v) /\ top.depth >= MaxDepth
    \/ top.v.kind = "kvlist" /\ \E i \in DOMAIN top.v.items : top.v.items[i].key > MaxKey

\* Mutant of PlainBody: bytes are taken for a structured body.
PlainBodyString(v) == v.kind = "string"

\* check_body: a scalar string or bytes body has its own limit and is not
\* walked.
PlainBody(v) == v.kind \in {"string", "bytes"}

\* Mutant of AttributesRefused: the attributes' own keys are not looked at.
AttributesRefusedByCount(v) == Len(v.items) > MaxAttributes

\* check_attributes refuses before it walks any value, or between two of them.
AttributesRefused(v) ==
    \/ Len(v.items) > MaxAttributes
    \/ \E i \in DOMAIN v.items : v.items[i].key > MaxKey

Walking(s) == stack = s /\ verdict = "walking"
Judge(ok)  == stack = <<>> /\ verdict = IF ok THEN "accepted" ELSE "refused"

\* scope_metadata_bytes, without the lengths of name, version and schema URL.
AttributeBytes(v) == FoldLeft(LAMBDA n, e : n + e.key + AttributeSize, 0, v.items)

Init ==
    /\ value \in Values[InputDepth]
    /\ \/ walk \in {"check", "size"} /\ Walking(<<[v |-> value, depth |-> 0]>>)
       \/ /\ walk = "body"
          /\ IF PlainBody(value) THEN Judge(value.len <= MaxBody)
             ELSE Walking(<<[v |-> value, depth |-> 0]>>)
       \/ /\ walk = "attributes" /\ value.kind = "kvlist"
          /\ IF AttributesRefused(value) THEN Judge(FALSE) ELSE Walking(Nested(value, -1))
       \/ walk = "scope" /\ value.kind = "kvlist" /\ Walking(Nested(value, -1))
    /\ total = IF walk = "scope" THEN AttributeBytes(value) ELSE 0

CheckStep ==
    /\ walk \in {"check", "body", "attributes"} /\ verdict = "walking" /\ stack # <<>>
    /\ LET top == Last(stack)
       IN  IF Refused(top)
           THEN verdict' = "refused" /\ UNCHANGED stack
           ELSE stack' = Front(stack) \o Nested(top.v, top.depth) /\ UNCHANGED verdict
    /\ UNCHANGED <<value, walk, total>>

\* Mutant of OwnSize: a list's keys are not counted.
OwnSizeWithoutKeys(v) == ValueSize + v.len

\* What any_value_size adds for one value.
OwnSize(v) ==
    ValueSize + v.len
        + IF v.kind = "kvlist"
          THEN FoldLeft(LAMBDA n, e : n + e.key + KeySize, 0, v.items) ELSE 0

SizeStep ==
    /\ walk \in {"size", "scope"} /\ verdict = "walking" /\ stack # <<>>
    /\ LET top == Last(stack)
       IN  /\ total' = total + OwnSize(top.v)
           /\ stack' = Front(stack) \o Nested(top.v, top.depth)
    /\ UNCHANGED <<value, walk, verdict>>

Finish ==
    /\ verdict = "walking" /\ stack = <<>>
    /\ verdict' = "accepted"
    /\ UNCHANGED <<value, walk, stack, total>>

Next == CheckStep \/ SizeStep \/ Finish

Spec == Init /\ [][Next]_vars

-----------------------------------------------------------------------------
(* The converter, and reference definitions *)

\* Mutant of AttributeValue: a container counts as the level of its items.
AttributeValueShallow(v, depth) == IsContainer(v) => depth + 1 < MaxDepth

RECURSIVE AttributeValue(_, _)

\* attribute_value_with_depth succeeds.
AttributeValue(v, depth) ==
    IsContainer(v) =>
        /\ depth < MaxDepth
        /\ \A i \in DOMAIN v.items :
               \A j \in DOMAIN v.items[i].value :
                   AttributeValue(v.items[i].value[j], depth + 1)

\* body_value succeeds: it converts the items of a structured body one by one,
\* and attributes does the same with a vector.
BodyValue(v) ==
    \A i \in DOMAIN v.items : \A j \in DOMAIN v.items[i].value :
        AttributeValue(v.items[i].value[j], 0)

RECURSIVE Parts(_, _)

\* Every value inside v, itself included, with its depth.
Parts(v, depth) ==
    {<<v, depth>>}
        \cup UNION {UNION {Parts(v.items[i].value[j], depth + 1) : j \in DOMAIN v.items[i].value}
               : i \in DOMAIN v.items}

RECURSIVE Size(_)

\* The size a recursive definition gives.
Size(v) ==
    ValueSize + v.len
        + FoldLeft(LAMBDA n, e : n + (IF v.kind = "kvlist" THEN e.key + KeySize ELSE 0)
                                   + (IF e.value = <<>> THEN 0 ELSE Size(e.value[1])),
                   0, v.items)

-----------------------------------------------------------------------------
(* Properties *)

WalkTypeOK ==
    /\ walk \in {"check", "body", "attributes", "size", "scope"}
    /\ verdict \in {"walking", "accepted", "refused"}
    /\ total \in Nat
    /\ \A i \in DOMAIN stack :
           stack[i].depth \in 0..(IF walk \in {"size", "scope"} THEN InputDepth ELSE MaxDepth)

Judged(w) == walk \in w /\ verdict # "walking"

\* The limits, over every value with its depth.
Within(parts) ==
    \A p \in parts :
        /\ p[1].len <= MaxLeaf
        /\ IsContainer(p[1]) => p[2] < MaxDepth
        /\ p[1].kind = "kvlist" => \A i \in DOMAIN p[1].items : p[1].items[i].key <= MaxKey

\* The stack walk refuses exactly the values with an oversized leaf, an
\* oversized key or a container MaxDepth deep, whatever order it visits them
\* in and wherever it stops (check_any_value).  A structured body is measured
\* like an attribute, itself the first level, and an attribute vector by its
\* values, each the first level (check_body, check_attributes).
WalkDecides ==
    /\ Judged({"check"}) => (verdict = "accepted") = Within(Parts(value, 0))
    /\ Judged({"body"}) =>
           (verdict = "accepted") = IF value.kind \in {"string", "bytes"}
                                    THEN value.len <= MaxBody
                                    ELSE Within(Parts(value, 0))
    /\ Judged({"attributes"}) =>
           (verdict = "accepted") =
               (Len(value.items) <= MaxAttributes /\ Within(Parts(value, -1)))

\* What the validator lets through never fails in the converter, as an
\* attribute, as the attributes of a record or as a body, which the converter
\* takes one level deeper (attribute_value, body_value).
AcceptedConverts ==
    verdict = "accepted" =>
        /\ walk = "check" => AttributeValue(value, 0)
        /\ walk \in {"body", "attributes"} => BodyValue(value)

\* any_value_size counts every value and key once, and so does the size of a
\* scope's attributes (scope_metadata_bytes).
SizeIsTotal ==
    /\ Judged({"size"}) => total = Size(value)
    /\ Judged({"scope"}) =>
           total + ValueSize = Size(value) + (AttributeSize - KeySize) * Len(value.items)
====
