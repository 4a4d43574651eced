---------------------------- MODULE PipelineState -----------------------------
(***************************************************************************)
(* What the threads of the storage pipeline share: the two bounded queues, *)
(* the admission gate, the commit ledger and the log table.  The request   *)
(* handlers, the insert batcher and the SQLite writer are modules of their *)
(* own over this state; Pipeline composes them.                            *)
(*                                                                         *)
(* A record is <<request, chunk, i>>.  Queues are crossbeam channels: when *)
(* the receiver is dropped the channel closes and its messages are gone.   *)
(***************************************************************************)
EXTENDS CommitLedger, Sequences

CONSTANTS Requests,         \* OTLP export requests, one handler task each
          Work,             \* per request: its chunks, [origin, size], after mapping
          Poison,           \* records that violate a constraint of the table
          IngestCapacity,   \* capacity of the ingest channel, in messages
          CommandCapacity,  \* capacity of the command channel
          Faults            \* which failures may happen in this instance

(* The origins of the chunks. *)
Origins == UNION {{Work[r][c].origin : c \in DOMAIN Work[r]} : r \in Requests}

ASSUME PipelineAssumption ==
    /\ \A r \in Requests : Work[r] \in Seq([origin : Origins, size : 1..MaxRecords])
    /\ IngestCapacity \in Nat \ {0} /\ CommandCapacity \in Nat \ {0}
    /\ Actors = Requests \cup {"batcher", "writer"}
    /\ Faults \subseteq {"busy", "fatal", "writer exits", "batcher exits", "batcher panics"}

VARIABLES gate,             \* IngestSender::admission: {} or the request holding it
          ingest,           \* the ingest channel
          ingestOpen,       \* its receiver is alive
          commands,         \* the command channel
          commandsOpen,     \* its receiver is alive
          serving,          \* the server runs and Storage keeps its producer
          table             \* committed rows, in insertion order

channelVars == <<gate, ingest, ingestOpen, commands, commandsOpen, serving>>

ChunkRecords(r, c) == [i \in 1..Work[r][c].size |-> <<r, c, i>>]
RecordsOf(r) ==
    UNION {{<<r, c, i>> : i \in 1..Work[r][c].size} : c \in DOMAIN Work[r]}
Rows == {table[k] : k \in DOMAIN table}

StateInit ==
    /\ LedgerInit
    /\ gate = {}
    /\ ingest = <<>>
    /\ ingestOpen = TRUE
    /\ commands = <<>>
    /\ commandsOpen = TRUE
    /\ serving = TRUE
    /\ table = <<>>
===============================================================================
