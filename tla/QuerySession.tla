---------------------------- MODULE QuerySession ----------------------------
(***************************************************************************)
(* What the Event Catalog Resolver & Query Loop promises (spec.md 4.3, 5   *)
(* and 8), independently of how pmu-query computes it.  A session loads a  *)
(* catalog once, or stops while loading; the catalog is then read-only.    *)
(* In dump mode it prints every complete event and exits.  Otherwise it    *)
(* alternates "awaiting input" and "processing a query": each query is     *)
(* answered in one step with the reference answer, or ends the session     *)
(* when a matching event lacks a field the answer needs; an empty line     *)
(* quits.  Strings are sequences of characters, as in PmuQuery.            *)
(***************************************************************************)
EXTENDS Integers, Sequences, SequencesExt

CONSTANTS
    Catalogs,    \* the event lists a load may produce
    Queries,     \* non-empty lines the user may type
    LowerChar,   \* str.lower() on single characters
    MaxQueries   \* bound on the queries of one session

ASSUME MaxQueries \in Nat /\ <<>> \notin Queries

VARIABLES
    phase,     \* "load", "await", "process", "exited" or "failed"
    dump,      \* the session runs in dump mode (-a)
    catalog,   \* core events then offcore events, once loaded
    query,     \* the query being processed, or the last one
    printed,   \* what the last dump or answer printed
    asked      \* queries so far

avars == <<phase, dump, catalog, query, printed, asked>>

\* The fields the formatted lines read from a matching event.
AnswerKeys == {"BriefDescription", "EventCode", "UMask", "MSRValue", "Invert",
               "AnyThread", "EdgeDetect", "CounterMask"}

\* event_name contains the query, case-insensitively.
Folded(s) == [k \in DOMAIN s |-> LowerChar[s[k]]]
Matching(q, e) == "EventName" \in DOMAIN e /\ Folded(q) \in SubSeqs(Folded(e["EventName"]))

\* Reference for the answer to one query: for every event whose name
\* contains the query, in catalog order, its name:description line and one
\* line per comma-separated EventCode entry, with the clauses offcore_rsp,
\* inv, any, edge, cmask of the fields that are not "0", in that order.
SpecOrder == <<"offcore_rsp", "inv", "any", "edge", "cmask">>
FieldOf == [offcore_rsp |-> "MSRValue", inv |-> "Invert", any |-> "AnyThread",
            edge |-> "EdgeDetect", cmask |-> "CounterMask"]
RECURSIVE SpecClauses(_, _)
SpecClauses(e, labels) ==
    IF labels = <<>> THEN <<>>
    ELSE (IF e[FieldOf[Head(labels)]] = "0" THEN <<>>
          ELSE << <<Head(labels), e[FieldOf[Head(labels)]]>> >>)
         \o SpecClauses(e, Tail(labels))
RECURSIVE CommaParts(_)
CommaParts(s) ==
    IF "," \notin ToSet(s) THEN <<s>>
    ELSE LET k == SelectInSeq(s, LAMBDA c : c = ",")
         IN  <<SubSeq(s, 1, k - 1)>> \o CommaParts(SubSeq(s, k + 1, Len(s)))
SpecCodes(s) ==
    LET parts == CommaParts(s)
    IN  [k \in 1..Len(parts) |-> SelectSeq(parts[k], LAMBDA c : c # " ")]
RECURSIVE SpecAnswer(_, _)
SpecAnswer(q, evs) ==
    IF evs = <<>> THEN <<>>
    ELSE LET e == Head(evs)
             codes == SpecCodes(e["EventCode"])
         IN  (IF Matching(q, e)
              THEN <<<<"desc", e["EventName"], e["BriefDescription"]>>>> \o
                   [k \in 1..Len(codes) |->
                      <<"cpu", e["UMask"], codes[k], e["EventName"], SpecClauses(e, SpecOrder)>>]
              ELSE <<>>)
             \o SpecAnswer(q, Tail(evs))

\* Reference for dump mode: one name:description line per event that has
\* both, in catalog order.
SpecListing(evs) ==
    LET listed == SelectSeq(evs, LAMBDA e : {"EventName", "BriefDescription"} \subseteq DOMAIN e)
    IN  [k \in 1..Len(listed) |-> <<"desc", listed[k]["EventName"], listed[k]["BriefDescription"]>>]

Incomplete(q, evs) == \E k \in DOMAIN evs : Matching(q, evs[k]) /\ ~(AnswerKeys \subseteq DOMAIN evs[k])
-----------------------------------------------------------------------------
QSInit ==
    /\ phase = "load" /\ dump \in BOOLEAN /\ catalog = <<>>
    /\ query = <<>> /\ printed = <<>> /\ asked = 0

Load ==
    /\ phase = "load" /\ phase' = "await" /\ catalog' \in Catalogs
    /\ UNCHANGED <<dump, query, printed, asked>>

\* An argument or resolution error (a status) or an I/O error while loading.
Stop ==
    /\ phase = "load" /\ phase' \in {"exited", "failed"}
    /\ UNCHANGED <<dump, catalog, query, printed, asked>>

Dump ==
    /\ phase = "await" /\ dump
    /\ printed' = SpecListing(catalog) /\ phase' = "exited"
    /\ UNCHANGED <<dump, catalog, query, asked>>

Ask(q) ==
    /\ phase = "await" /\ ~dump /\ asked < MaxQueries
    /\ phase' = "process" /\ query' = q /\ printed' = <<>> /\ asked' = asked + 1
    /\ UNCHANGED <<dump, catalog>>

Answer ==
    /\ phase = "process" /\ ~Incomplete(query, catalog)
    /\ printed' = SpecAnswer(query, catalog) /\ phase' = "await"
    /\ UNCHANGED <<dump, catalog, query, asked>>

Raise ==
    /\ phase = "process" /\ Incomplete(query, catalog)
    /\ phase' = "failed"
    /\ UNCHANGED <<dump, catalog, query, printed, asked>>

Quit ==
    /\ phase = "await" /\ ~dump /\ phase' = "exited"
    /\ UNCHANGED <<dump, catalog, query, printed, asked>>

QSNext ==
    \/ Load \/ Stop \/ Dump \/ (\E q \in Queries : Ask(q)) \/ Answer \/ Raise \/ Quit

\* Loading may wait forever (on the network or the identification child);
\* once loaded, a dump is printed and a query is processed without waiting.
QSSpec == QSInit /\ [][QSNext]_avars /\ WF_avars(Dump) /\ WF_avars(Answer) /\ WF_avars(Raise)
=============================================================================
