---------------------------- MODULE ServingReader ---------------------------
(***************************************************************************)
(* The API's ClickHouse repository (apps/api/clickhouse_repository.py).    *)
(* Every endpoint first resolves a publication with one query and then     *)
(* reads rows joined to the visible markers with a second one; nothing     *)
(* holds the version in between.  A client learns the data_version from    *)
(* the context endpoint and sends it with every later request (apps/web/   *)
(* app/page.tsx); any endpoint also answers without one.  The health check *)
(* compares the marker's row counts with the stored ones.  An answer       *)
(* carries the version it was resolved to, whether the response says so or *)
(* not.                                                                    *)
(***************************************************************************)
EXTENDS ServingStore

CONSTANTS Clients    \* concurrent users of the product

VARIABLES
    pin,       \* pin[c]: data_version client c carries, None before its first
    request,   \* request[c]: what the API is answering for c
    target,    \* target[c]: publication resolved for that request
    answer     \* answer[c]: the last answer c received

readerVars == <<pin, request, target, answer>>

Requests == {"none", "context", "current", "history", "health"}

NoAnswer == [kind |-> "none", version |-> None, dataset |-> "current", rows |-> {}]
Answer == [kind : {"none", "rows", "not_found", "version_unavailable", "unavailable",
                   "ready", "row_count_mismatch", "integrity_check_failed"},
           version : Attempts \cup {None}, dataset : Datasets, rows : SUBSET Row]

ReaderTypeOK ==
    /\ pin \in [Clients -> Attempts \cup {None}]
    /\ request \in [Clients -> Requests]
    /\ target \in [Clients -> Attempts \cup {None}]
    /\ answer \in [Clients -> Answer]

ReaderInit ==
    /\ pin = [c \in Clients |-> None]
    /\ request = [c \in Clients |-> "none"]
    /\ target = [c \in Clients |-> None]
    /\ answer = [c \in Clients |-> NoAnswer]

-----------------------------------------------------------------------------
(* _resolve_publication without a version: the newest ready publication.   *)
ResolveLatest(c, kind) ==
    /\ request[c] = "none"
    /\ kind # "none"
    /\ IF markers = {}
       THEN /\ answer' = [answer EXCEPT ![c] = [NoAnswer EXCEPT !.kind = "unavailable"]]
            /\ UNCHANGED <<request, target>>
       ELSE /\ request' = [request EXCEPT ![c] = kind]
            /\ target' = [target EXCEPT ![c] = Newest(markers).id]
            /\ answer' = [answer EXCEPT ![c] = NoAnswer]
    /\ UNCHANGED <<pin, storeVars>>

(* _resolve_publication with the client's version: 409 if it is not ready. *)
ResolvePinned(c, kind) ==
    /\ request[c] = "none"
    /\ kind \in {"context", "current", "history"}
    /\ pin[c] # None
    /\ IF pin[c] \notin MarkerIds
       THEN /\ answer' = [answer EXCEPT ![c] =
                            [NoAnswer EXCEPT !.kind = "version_unavailable",
                                             !.version = pin[c]]]
            /\ UNCHANGED <<request, target>>
       ELSE /\ request' = [request EXCEPT ![c] = kind]
            /\ target' = [target EXCEPT ![c] = pin[c]]
            /\ answer' = [answer EXCEPT ![c] = NoAnswer]
    /\ UNCHANGED <<pin, storeVars>>

(* The second query: rows of the resolved attempt that a ready marker      *)
(* still makes visible; only the history endpoint answers 404 for none.    *)
VisibleRowsOfEveryVersion(id, d) ==    \* wrong: no load_attempt_id predicate
    UNION {rows[m][d] : m \in MarkerIds}
VisibleRows(id, d) == IF id \in MarkerIds THEN rows[id][d] ELSE {}

QueryRows(c) ==
    /\ request[c] \in {"context", "current", "history"}
    /\ LET d == IF request[c] = "history" THEN "history" ELSE "current"
           found == VisibleRows(target[c], d)
           kind == IF d = "history" /\ found = {} THEN "not_found" ELSE "rows"
       IN answer' = [answer EXCEPT ![c] =
                       [kind |-> kind, version |-> target[c], dataset |-> d,
                        rows |-> found]]
    /\ pin' = [pin EXCEPT ![c] = IF request[c] = "context" THEN target[c] ELSE @]
    /\ request' = [request EXCEPT ![c] = "none"]
    /\ target' = [target EXCEPT ![c] = None]
    /\ UNCHANGED storeVars

(* get_readiness: no marker row is an integrity failure.                   *)
Readiness(id) ==
    IF id \notin MarkerIds THEN "integrity_check_failed"
    ELSE IF \A d \in Datasets :
               \A m \in {n \in markers : n.id = id} :
                  Cardinality(m.content[d]) = Cardinality(rows[id][d])
         THEN "ready"
         ELSE "row_count_mismatch"

QueryCounts(c) ==
    /\ request[c] = "health"
    /\ answer' = [answer EXCEPT ![c] =
                    [NoAnswer EXCEPT !.kind = Readiness(target[c]),
                                     !.version = target[c]]]
    /\ request' = [request EXCEPT ![c] = "none"]
    /\ target' = [target EXCEPT ![c] = None]
    /\ UNCHANGED <<pin, storeVars>>

ReaderNext ==
    \E c \in Clients :
        \/ \E kind \in Requests : ResolveLatest(c, kind) \/ ResolvePinned(c, kind)
        \/ QueryRows(c)
        \/ QueryCounts(c)

=============================================================================
