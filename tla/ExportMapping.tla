---------------------------- MODULE ExportMapping ----------------------------
(***************************************************************************)
(* The mapping job of one export (otel-sqlite-ingress/src/logs.rs handle,  *)
(* mapping/logs.rs, mapping/common.rs): count, validate, then one chunk    *)
(* per resource group that has records.                                    *)
(*                                                                         *)
(* A request is a sequence of groups, a group a sequence of scopes, a      *)
(* scope its metadata bytes, whether its values are within limits (module  *)
(* AnyValueWalk) and its records.  A record carries the fields that a      *)
(* conversion can change; its attribute and its body are their kind.       *)
(***************************************************************************)
EXTENDS Integers, Sequences, SequencesExt

CONSTANTS Requests,    \* the requests mapped
          MaxRecords,  \* max_records_per_request
          Budget,      \* max_scope_metadata_expansion_bytes
          Width,       \* bits of a timestamp
          IdLen        \* bytes of an id

MappingAssumption ==
    /\ MaxRecords \in Nat /\ Budget \in Nat /\ Width \in Nat \ {0} /\ IdLen \in Nat \ {0}

VARIABLES request, outcome,
          group,    \* the group looked at
          chunks, losses

vars == <<request, outcome, group, chunks, losses>>

Cat(seqs) == FoldLeft(LAMBDA a, b : a \o b, <<>>, seqs)
Map(f(_), s) == [i \in DOMAIN s |-> f(s[i])]

-----------------------------------------------------------------------------
(* Fields *)

MaxI == 2 ^ (Width - 1) - 1
ZeroId == [i \in 1..IdLen |-> 0]

\* Mutant of Timestamp: the cast wraps.
TimestampWrapped(u) == IF u <= MaxI THEN u ELSE u - 2 ^ Width

\* u64 to i64, saturating.
Timestamp(u) == IF u <= MaxI THEN u ELSE MaxI

\* ParsedId: absent, valid, or invalid and counted.
ParseId(bytes) ==
    CASE bytes = <<>> -> "absent"
      [] Len(bytes) = IdLen /\ bytes # ZeroId -> "valid"
      [] OTHER -> "invalid"

\* Severity::from_u8 knows 0..24; 0 is Unspecified.
Severity(n) == IF n \in 0..24 THEN n ELSE 0

\* attribute_value: an index into the string table of profiles is absent here.
Attribute(kind) == IF kind = "index" THEN "absent" ELSE kind

\* body_value: bytes that are no text are replaced character by character, an
\* index becomes an empty body.
Body(kind) ==
    CASE kind = "raw bytes" -> "replaced"
      [] kind = "index"     -> "absent"
      [] OTHER              -> kind

One(cond) == IF cond THEN 1 ELSE 0

\* Mutant of Losses: an invalid id goes unnoticed.
LossesWithoutIds(r) ==
    One(r.observed > MaxI) + One(r.time > MaxI) + One(r.severity \notin 0..24)
        + One(r.attribute = "index")

\* Increments of otlp_mapping_loss_total for one record.
Losses(r) ==
    One(r.observed > MaxI) + One(r.time > MaxI) + One(r.severity \notin 0..24)
        + One(ParseId(r.trace) = "invalid") + One(ParseId(r.span) = "invalid")
        + One(r.attribute = "index")

\* into_id, then unwrap_or_default.
Id(bytes) == IF ParseId(bytes) = "valid" THEN bytes ELSE ZeroId

ConvertRecord(r) ==
    [id        |-> r.id,
     observed  |-> Timestamp(r.observed),
     time      |-> IF r.time = 0 THEN Timestamp(r.observed) ELSE Timestamp(r.time),
     severity  |-> Severity(r.severity),
     trace     |-> Id(r.trace),
     span      |-> Id(r.span),
     attribute |-> Attribute(r.attribute),
     body      |-> Body(r.body)]

-----------------------------------------------------------------------------
(* The job *)

RecordsOf(g) == Cat(Map(LAMBDA scope : scope.records, g))
Count(req)   == Len(Cat(Map(RecordsOf, req)))

\* Mutant of ExpansionOk: the quotient is rounded up.
ExpansionOkRoundedUp(meta, members) ==
    members = 0 \/ meta = 0 \/ meta <= (Budget + members - 1) \div members

\* check_scope_expansion, by division.
ExpansionOk(meta, members) ==
    members = 0 \/ meta = 0 \/ meta <= Budget \div members

ScopeOk(s) == s.valid /\ ExpansionOk(s.meta, Len(s.records))

Init ==
    /\ request \in Requests
    /\ outcome = "counting" /\ group = 1 /\ chunks = <<>> /\ losses = 0

CountStep ==
    /\ outcome = "counting"
    /\ outcome' = IF Count(request) > MaxRecords THEN "refused" ELSE "validating"
    /\ UNCHANGED <<request, group, chunks, losses>>

ValidateGroup ==
    /\ outcome = "validating" /\ group <= Len(request)
    /\ IF \A i \in DOMAIN request[group] : ScopeOk(request[group][i])
       THEN group' = group + 1 /\ UNCHANGED outcome
       ELSE outcome' = "refused" /\ UNCHANGED group
    /\ UNCHANGED <<request, chunks, losses>>

StartMapping ==
    /\ outcome = "validating" /\ group > Len(request)
    /\ outcome' = "mapping" /\ group' = 1
    /\ UNCHANGED <<request, chunks, losses>>

\* Mutant of MapGroup: a group without records is a chunk too.
MapGroupEmpty ==
    /\ outcome = "mapping" /\ group <= Len(request)
    /\ LET records == RecordsOf(request[group])
       IN  /\ chunks' = Append(chunks, Map(ConvertRecord, records))
           /\ losses' = losses + FoldLeft(LAMBDA n, r : n + Losses(r), 0, records)
    /\ group' = group + 1
    /\ UNCHANGED <<request, outcome>>

\* try_convert_batch; map_chunks drops a chunk without records.
MapGroup ==
    /\ outcome = "mapping" /\ group <= Len(request)
    /\ LET records == RecordsOf(request[group])
       IN  /\ chunks' = IF records = <<>> THEN chunks
                        ELSE Append(chunks, Map(ConvertRecord, records))
           /\ losses' = losses + FoldLeft(LAMBDA n, r : n + Losses(r), 0, records)
    /\ group' = group + 1
    /\ UNCHANGED <<request, outcome>>

FinishMapping ==
    /\ outcome = "mapping" /\ group > Len(request)
    /\ outcome' = "mapped"
    /\ UNCHANGED <<request, group, chunks, losses>>

Next == CountStep \/ ValidateGroup \/ StartMapping \/ MapGroup \/ FinishMapping

Spec == Init /\ [][Next]_vars

-----------------------------------------------------------------------------
(* Properties *)

Sent   == Cat(Map(RecordsOf, request))
Stored == Cat(chunks)

\* A mapped request's chunks hold its records, each once and in order, and no
\* chunk is empty: the number of records admitted is the number counted.
ChunksAreTheRequest ==
    outcome = "mapped" =>
        /\ Map(LAMBDA r : r.id, Stored) = Map(LAMBDA r : r.id, Sent)
        /\ \A i \in DOMAIN chunks : chunks[i] # <<>>

\* Times keep their order through the narrowing and none turns negative; a
\* record without a time is placed by its observed time.
TimesKeepOrder ==
    outcome = "mapped" =>
        \A i, j \in DOMAIN Sent :
            LET t(r) == IF r.time = 0 THEN r.observed ELSE r.time
            IN  /\ Stored[i].time >= 0
                /\ t(Sent[i]) <= t(Sent[j]) => Stored[i].time <= Stored[j].time

\* Fields of record i that are stored otherwise than they were sent; an id of
\* zeroes was sent as an id and is stored as none.
IdChanged(sent, stored) == sent \notin {<<>>, stored} \ {ZeroId}

FieldsChanged(i) ==
    One(Stored[i].observed # Sent[i].observed)
        + One(Sent[i].time # 0 /\ Stored[i].time # Sent[i].time)
        + One(Stored[i].severity # Sent[i].severity)
        + One(IdChanged(Sent[i].trace, Stored[i].trace))
        + One(IdChanged(Sent[i].span, Stored[i].span))
        + One(Stored[i].attribute # Sent[i].attribute)

BodyChanged(i) == Stored[i].body # Sent[i].body

Total(f(_)) == FoldLeft(LAMBDA n, i : n + f(i), 0, [i \in DOMAIN Sent |-> i])

\* Every field but the body that is stored otherwise than it was sent is
\* counted, once; the body changes, uncounted, only when it is an index or bytes
\* that are no text (convert_record).
FieldLossesAreCounted ==
    outcome = "mapped" =>
        /\ losses = Total(FieldsChanged)
        /\ \A i \in DOMAIN Sent : BodyChanged(i) => Sent[i].body \in {"raw bytes", "index"}

\* What is not stored as it was sent is "rejected visibly or counted in
\* otlp_mapping_loss_total, never silently converted" (README.md, of string-table
\* indices and bytes bodies among others).
LossesAreCounted ==
    outcome = "mapped" => losses = Total(LAMBDA i : FieldsChanged(i) + One(BodyChanged(i)))

\* The division decides the product: a request is refused for its scopes
\* exactly when some scope's metadata times its records exceeds the budget.
ExpansionIsTheProduct ==
    outcome \in {"mapped", "refused"} =>
        (outcome = "mapped") =
            (/\ Count(request) <= MaxRecords
             /\ \A i \in DOMAIN request : \A j \in DOMAIN request[i] :
                    /\ request[i][j].valid
                    /\ request[i][j].meta * Len(request[i][j].records) <= Budget)
====
