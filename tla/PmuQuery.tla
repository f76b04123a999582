------------------------------ MODULE PmuQuery ------------------------------
(***************************************************************************)
(* The pmu-query script (src/scripts/pmu-query.py; src/pmu-query.py is the *)
(* older Python 2 version).  One sequential process: parse the options,    *)
(* either fetch mapfile.csv, run pcm-core to identify the CPU, scan the    *)
(* map rows and fetch the chosen JSON documents, or load the -f files;     *)
(* then dump every event or answer queries until an empty line.  The       *)
(* pcm-core child is the only other actor.  Strings the properties look    *)
(* into (event names, queries, EventCode, paths) are sequences.            *)
(***************************************************************************)
EXTENDS Integers, Sequences, SequencesExt, TLC

CONSTANTS
    Variant,       \* "py3" (src/scripts/pmu-query.py) or "py2" (src/pmu-query.py)
    Platforms,     \* values platform.system() may return
    CpuIds,        \* identification strings pcm-core -c may print
    MapFiles,      \* candidate contents of mapfile.csv: sequences of rows
    Matches(_, _), \* re.search(Family-model, output) succeeds
    Docs,          \* path -> JSON event list served at base URL + path
    Argvs,         \* parsed options; error marks a getopt.GetoptError
    LocalDocs,     \* local file name -> JSON event list
    Queries,       \* non-empty lines the user may type
    LowerChar,     \* str.lower() on single characters
    MaxQueries     \* bound on the queries of one session

ASSUME Variant \in {"py2", "py3"}
ASSUME MaxQueries \in Nat /\ <<>> \notin Queries

VARIABLES
    pc, env, opts, rows, helper, output, i, corePath, offcorePath,
    coreEvents, offcoreEvents, fetched, written, files, query, j, out,
    nQueries, status

vars == <<pc, env, opts, rows, helper, output, i, corePath, offcorePath,
          coreEvents, offcoreEvents, fetched, written, files, query, j, out,
          nQueries, status>>

NoPath == <<>>                                  \* core_path = ""
Catalog == coreEvents \o offcoreEvents          \* core_events + offcore_events
ExitStatus(code) == code % 256                  \* sys.exit(-1) exits with 255
Basename(path) == path[Len(path)]               \* path.split("/")[-1]
Lower(s) == [k \in DOMAIN s |-> LowerChar[s[k]]]

\* str.split(sep) on a sequence of characters.
RECURSIVE SplitSeq(_, _)
SplitSeq(s, sep) ==
    IF sep \notin SubSeqs(s) THEN <<s>>
    ELSE LET k == IndexFirstSubSeq(sep, s)
         IN <<SubSeq(s, 1, k - 1)>> \o SplitSeq(SubSeq(s, k + Len(sep), Len(s)), sep)

\* The command pcm-core is started with: a Popen list whose items are
\* strings, each given as the sequence of its words.
Py3Command ==
    CASE env.platform = "CYGWIN_NT-6.1" -> << <<"./pcm-core.exe", "-c">> >>
      [] env.platform = "Windows"       -> << <<"pcm-core.exe">>, <<"-c">> >>
      [] env.platform = "Linux"         -> << <<"pcm-core">>, <<"-c">> >>
      [] OTHER                          -> << <<"../build/bin/pcm-core", "-c">> >>

\* Mutant: the Python 2 script building its fallback command as a list too.
Py2CommandAsList ==
    CASE env.platform = "CYGWIN_NT-6.1" -> << <<"./pcm-core.exe", "-c">> >>
      [] env.platform = "Windows"       -> << <<"pcm-core.exe">>, <<"-c">> >>
      [] OTHER                          -> << <<"./pcm-core.x">>, <<"-c">> >>

Py2Command ==
    CASE env.platform = "CYGWIN_NT-6.1" -> << <<"./pcm-core.exe", "-c">> >>
      [] env.platform = "Windows"       -> << <<"pcm-core.exe">>, <<"-c">> >>
      [] OTHER                          -> << <<"./pcm-core.x", "-c">> >>

Command == IF Variant = "py3" THEN Py3Command ELSE Py2Command

\* Popen(..., shell=True): Windows joins the list into one command line;
\* POSIX runs sh -c with the first item, the other items become $0, $1...
HelperArgv(cmd) == IF env.platform = "Windows" THEN FlattenSeq(cmd) ELSE cmd[1]

\* The fields an interactive query reads, and the optional clauses of a
\* counter-programming string in the order they are printed.
QueryKeys == {"BriefDescription", "EventCode", "UMask", "MSRValue", "Invert",
              "AnyThread", "EdgeDetect", "CounterMask"}
OptFields == <<"MSRValue", "Invert", "AnyThread", "EdgeDetect", "CounterMask">>
Label == [MSRValue |-> "offcore_rsp", Invert |-> "inv", AnyThread |-> "any",
          EdgeDetect |-> "edge", CounterMask |-> "cmask"]

Header(e) == <<"desc", e["EventName"], e["BriefDescription"]>>
\* Mutant: every clause printed, "0" or not.
ExtrasAll(e) == [k \in 1..Len(OptFields) |-> <<Label[OptFields[k]], e[OptFields[k]]>>]
Extras(e) ==
    LET nz == SelectSeq(OptFields, LAMBDA f : e[f] # "0")
    IN  [k \in 1..Len(nz) |-> <<Label[nz[k]], e[nz[k]]>>]
CodeLine(e, code) == <<"cpu", e["UMask"], code, e["EventName"], Extras(e)>>
Lines(e) ==
    LET codes == SplitSeq(e["EventCode"], <<",", " ">>)
    IN  <<Header(e)>> \o [k \in 1..Len(codes) |-> CodeLine(e, codes[k])]
Hit(q, e) == "EventName" \in DOMAIN e /\ Lower(q) \in SubSeqs(Lower(e["EventName"]))
-----------------------------------------------------------------------------
Init ==
    /\ env \in [platform : Platforms, installed : BOOLEAN, cpu : CpuIds]
    /\ opts \in Argvs
    /\ pc = "getopt"
    /\ rows = <<>> /\ helper = "none" /\ output = "" /\ i = 1
    /\ corePath = NoPath /\ offcorePath = NoPath
    /\ coreEvents = <<>> /\ offcoreEvents = <<>>
    /\ fetched = {} /\ written = <<>> /\ files = <<>>
    /\ query = <<>> /\ j = 1 /\ out = <<>> /\ nQueries = 0 /\ status = 0

\* An uncaught exception (urlopen, open or json.load failing) ends the script.
Crash == pc' = "crashed" /\ status' = 1

\* Lines 21-34, 93-94: getopt, then the remote or the local branch.
GetOpt ==
    /\ pc = "getopt"
    /\ IF opts.error
         THEN pc' = "done" /\ status' = ExitStatus(-2) /\ UNCHANGED files
       ELSE IF opts.file = NoPath
         THEN pc' = "fetch_map" /\ UNCHANGED <<files, status>>
       ELSE pc' = "load_files" /\ files' = SplitSeq(opts.file, <<",">>)
            /\ UNCHANGED status
    /\ UNCHANGED <<env, opts, rows, helper, output, i, corePath, offcorePath,
                   coreEvents, offcoreEvents, fetched, written, query, j, out, nQueries>>

\* Lines 36-46: download and parse mapfile.csv.
FetchMap ==
    /\ pc = "fetch_map"
    /\ \/ \E m \in MapFiles : rows' = m /\ pc' = "spawn" /\ UNCHANGED status
       \/ Crash /\ UNCHANGED rows
    /\ UNCHANGED <<env, opts, helper, output, i, corePath, offcorePath, coreEvents,
                   offcoreEvents, fetched, written, files, query, j, out, nQueries>>

\* Lines 48-59: start pcm-core; on Linux only if shutil.which finds it.  The
\* child prints its signature only when it receives -c; without it pcm-core
\* either runs its monitoring loop, which does not end by itself, or fails
\* (no MSR access) and exits without printing a signature.
Spawn ==
    /\ pc = "spawn"
    /\ IF Variant = "py3" /\ env.platform = "Linux" /\ ~env.installed
         THEN pc' = "done" /\ status' = ExitStatus(-1) /\ UNCHANGED helper
         ELSE /\ IF "-c" \in ToSet(HelperArgv(Command))
                 THEN helper' = "signature" ELSE helper' \in {"monitor", "nosig"}
              /\ pc' = "communicate" /\ UNCHANGED status
    /\ UNCHANGED <<env, opts, rows, output, i, corePath, offcorePath, coreEvents,
                   offcoreEvents, fetched, written, files, query, j, out, nQueries>>

\* Lines 61-62: p.communicate() returns once the child has exited; a
\* missing executable leaves only the shell's error on stderr.
Communicate ==
    /\ pc = "communicate" /\ helper \in {"signature", "nosig"}
    /\ output' = IF env.installed /\ helper = "signature" THEN env.cpu ELSE ""
    /\ helper' = "exited" /\ pc' = "resolve" /\ i' = 1
    /\ UNCHANGED <<env, opts, rows, corePath, offcorePath, coreEvents, offcoreEvents,
                   fetched, written, files, query, j, out, nQueries, status>>

\* The child in its monitoring loop: it keeps printing, the script keeps waiting.
HelperMonitor == helper = "monitor" /\ UNCHANGED vars

\* Mutant: the first matching row of a type wins.
ResolveRowFirstWins ==
    /\ pc = "resolve" /\ i <= Len(rows)
    /\ LET r == rows[i] IN
       IF Matches(r.fm, output)
         THEN /\ corePath' = IF r.type = "core" /\ corePath = NoPath THEN r.file ELSE corePath
              /\ offcorePath' = IF r.type = "offcore" /\ offcorePath = NoPath
                               THEN r.file ELSE offcorePath
         ELSE UNCHANGED <<corePath, offcorePath>>
    /\ i' = i + 1
    /\ UNCHANGED <<pc, env, opts, rows, helper, output, coreEvents, offcoreEvents,
                   fetched, written, files, query, j, out, nQueries, status>>

\* Lines 63-69: one row of the map; a later match overwrites an earlier one.
ResolveRow ==
    /\ pc = "resolve" /\ i <= Len(rows)
    /\ LET r == rows[i] IN
       IF Matches(r.fm, output)
         THEN /\ corePath' = IF r.type = "core" THEN r.file ELSE corePath
              /\ offcorePath' = IF r.type = "offcore" THEN r.file ELSE offcorePath
         ELSE UNCHANGED <<corePath, offcorePath>>
    /\ i' = i + 1
    /\ UNCHANGED <<pc, env, opts, rows, helper, output, coreEvents, offcoreEvents,
                   fetched, written, files, query, j, out, nQueries, status>>

\* Lines 71-82: after the scan, fetch the core document or abort.
ResolveDone ==
    /\ pc = "resolve" /\ i > Len(rows)
    /\ IF corePath # NoPath
         THEN pc' = "fetch_core" /\ UNCHANGED status
         ELSE pc' = "done" /\ status' = ExitStatus(-1)
    /\ UNCHANGED <<env, opts, rows, helper, output, i, corePath, offcorePath,
                   coreEvents, offcoreEvents, fetched, written, files, query, j,
                   out, nQueries>>

\* json.dump(events, open(path.split("/")[-1], "w")) under --download.
Save(path, evs) ==
    written' = IF opts.download THEN (Basename(path) :> evs) @@ written ELSE written

\* Lines 71-79: urlopen + json.load of the core document, then its copy.
FetchCore ==
    /\ pc = "fetch_core"
    /\ \/ /\ coreEvents' = Docs[corePath] /\ fetched' = fetched \cup {corePath}
          /\ Save(corePath, Docs[corePath]) /\ pc' = "fetch_offcore"
          /\ UNCHANGED status
       \/ Crash /\ UNCHANGED <<coreEvents, fetched, written>>
    /\ UNCHANGED <<env, opts, rows, helper, output, i, corePath, offcorePath,
                   offcoreEvents, files, query, j, out, nQueries>>

\* Lines 84-92: the offcore document, only when an offcore row matched.
FetchOffcore ==
    /\ pc = "fetch_offcore"
    /\ \/ /\ offcorePath = NoPath /\ pc' = "entry"
          /\ UNCHANGED <<offcoreEvents, fetched, written, status>>
       \/ /\ offcorePath # NoPath
          /\ offcoreEvents' = Docs[offcorePath] /\ fetched' = fetched \cup {offcorePath}
          /\ Save(offcorePath, Docs[offcorePath]) /\ pc' = "entry"
          /\ UNCHANGED status
       \/ offcorePath # NoPath /\ Crash /\ UNCHANGED <<offcoreEvents, fetched, written>>
    /\ UNCHANGED <<env, opts, rows, helper, output, i, corePath, offcorePath,
                   coreEvents, files, query, j, out, nQueries>>

\* Mutant: each -f file replaces core_events instead of extending it.
LoadFileReplace ==
    /\ pc = "load_files"
    /\ \/ /\ files # <<>>
          /\ \/ /\ Head(files) \in DOMAIN LocalDocs
                /\ coreEvents' = LocalDocs[Head(files)]
                /\ files' = Tail(files) /\ UNCHANGED <<pc, status>>
             \/ Crash /\ UNCHANGED <<coreEvents, files>>
       \/ files = <<>> /\ pc' = "entry" /\ UNCHANGED <<coreEvents, files, status>>
    /\ UNCHANGED <<env, opts, rows, helper, output, i, corePath, offcorePath,
                   offcoreEvents, fetched, written, query, j, out, nQueries>>

\* Lines 94-96: every -f file is appended to core_events.
LoadFile ==
    /\ pc = "load_files"
    /\ \/ /\ files # <<>>
          /\ \/ /\ Head(files) \in DOMAIN LocalDocs
                /\ coreEvents' = coreEvents \o LocalDocs[Head(files)]
                /\ files' = Tail(files) /\ UNCHANGED <<pc, status>>
             \/ Crash /\ UNCHANGED <<coreEvents, files>>
       \/ files = <<>> /\ pc' = "entry" /\ UNCHANGED <<coreEvents, files, status>>
    /\ UNCHANGED <<env, opts, rows, helper, output, i, corePath, offcorePath,
                   offcoreEvents, fetched, written, query, j, out, nQueries>>

\* Lines 98-102: --all prints name:description of every complete event and exits.
Dump ==
    /\ pc = "entry" /\ opts.all
    /\ LET listed == SelectSeq(Catalog, LAMBDA e :
                          {"EventName", "BriefDescription"} \subseteq DOMAIN e)
       IN  out' = [k \in 1..Len(listed) |-> Header(listed[k])]
    /\ pc' = "done" /\ status' = 0
    /\ UNCHANGED <<env, opts, rows, helper, output, i, corePath, offcorePath,
                   coreEvents, offcoreEvents, fetched, written, files, query, j, nQueries>>

\* Lines 104-105, 134: read a line; the empty line ends the script.
Prompt ==
    /\ \/ pc = "entry" /\ ~opts.all
       \/ pc = "prompt"
    /\ \E q \in (IF nQueries < MaxQueries THEN Queries ELSE {}) \cup {<<>>} :
          IF q = <<>>
            THEN pc' = "done" /\ UNCHANGED <<query, j, out, nQueries>>
            ELSE /\ pc' = "scan" /\ query' = q /\ j' = 1 /\ out' = <<>>
                 /\ nQueries' = nQueries + 1
    /\ UNCHANGED <<env, opts, rows, helper, output, i, corePath, offcorePath,
                   coreEvents, offcoreEvents, fetched, written, files, status>>

\* Lines 106-132: one event of the scan.  A missing key raises KeyError:
\* BriefDescription before anything is printed, the others after the header.
ScanEvent ==
    /\ pc = "scan" /\ j <= Len(Catalog)
    /\ LET e == Catalog[j] IN
       IF ~Hit(query, e)
         THEN UNCHANGED <<pc, out, status>>
       ELSE IF QueryKeys \subseteq DOMAIN e
         THEN out' = out \o Lines(e) /\ UNCHANGED <<pc, status>>
       ELSE /\ out' = IF "BriefDescription" \in DOMAIN e
                      THEN Append(out, Header(e)) ELSE out
            /\ Crash
    /\ j' = j + 1
    /\ UNCHANGED <<env, opts, rows, helper, output, i, corePath, offcorePath,
                   coreEvents, offcoreEvents, fetched, written, files, query, nQueries>>

ScanDone ==
    /\ pc = "scan" /\ j > Len(Catalog)
    /\ pc' = "prompt"
    /\ UNCHANGED <<env, opts, rows, helper, output, i, corePath, offcorePath,
                   coreEvents, offcoreEvents, fetched, written, files, query, j,
                   out, nQueries, status>>

\* The process has exited.
Terminated == pc \in {"done", "crashed"} /\ UNCHANGED vars

Next ==
    \/ GetOpt \/ FetchMap \/ Spawn \/ Communicate \/ HelperMonitor
    \/ ResolveRow \/ ResolveDone \/ FetchCore \/ FetchOffcore \/ LoadFile
    \/ Dump \/ Prompt \/ ScanEvent \/ ScanDone \/ Terminated

\* Every step of the script itself: all actions but Prompt, which waits
\* for the user, and the stuttering of a running or exited process.
ScriptStep ==
    \/ GetOpt \/ FetchMap \/ Spawn \/ Communicate
    \/ ResolveRow \/ ResolveDone \/ FetchCore \/ FetchOffcore \/ LoadFile
    \/ Dump \/ ScanEvent \/ ScanDone

\* The script runs on one thread that never pauses by itself; the user may
\* never type another line, so Prompt is not fair.
Spec == Init /\ [][Next]_vars /\ WF_vars(ScriptStep)
-----------------------------------------------------------------------------
Phases == {"getopt", "fetch_map", "spawn", "communicate", "resolve", "fetch_core",
           "fetch_offcore", "load_files", "entry", "prompt", "scan", "done", "crashed"}

TypeOK ==
    /\ pc \in Phases
    /\ helper \in {"none", "signature", "monitor", "nosig", "exited"}
    /\ output \in CpuIds \cup {""}
    /\ i \in 1..(Len(rows) + 1) /\ j \in Nat /\ nQueries \in 0..MaxQueries
    /\ status \in 0..255
    /\ \A e \in ToSet(Catalog) : "EventName" \in DOMAIN e => e["EventName"] \in Seq(DOMAIN LowerChar)

\* What the map prescribes for the identified CPU: the file of the last row
\* of that type whose pattern matches (reference for lines 63-69).
LastMatch(t) ==
    LET k == SelectLastInSeq(rows, LAMBDA r : r.type = t /\ Matches(r.fm, output))
    IN  IF k = 0 THEN NoPath ELSE rows[k].file

\* Options, map, identification and documents: everything before the catalog is in memory.
LoadPhases == Phases \ {"entry", "prompt", "scan", "done", "crashed"}

\* The catalog is in memory: the dump or the query loop may run.
Loaded == pc \in {"entry", "prompt", "scan"}

\* Once the scan of mapfile.csv is over, core_path and offcore_path are the
\* files of the last matching core and offcore rows (hybrid CPUs have two
\* matching core rows; the scan keeps the last one).
LastMatchWins ==
    helper = "exited" /\ i > Len(rows) =>
        /\ corePath = LastMatch("core")
        /\ offcorePath = LastMatch("offcore")

\* When a query may run, the in-memory catalog is exactly the documents the
\* map names for this CPU (core first, offcore after), or, under -f, the
\* local files concatenated in argument order with no offcore list.
LoadedCatalog ==
    Loaded =>
        IF opts.file = NoPath
        THEN /\ LastMatch("core") # NoPath
             /\ coreEvents = Docs[LastMatch("core")]
             /\ offcoreEvents = IF LastMatch("offcore") = NoPath THEN <<>>
                                ELSE Docs[LastMatch("offcore")]
        ELSE LET names == SplitSeq(opts.file, <<",">>)
             IN  /\ coreEvents = FlattenSeq([k \in 1..Len(names) |-> LocalDocs[names[k]]])
                 /\ offcoreEvents = <<>>

\* With pcm-core installed, the string the map rows are matched against is
\* the host's signature (pcm-core must be started with -c).
IdentifiesHost == helper = "exited" /\ env.installed => output = env.cpu

\* Loading always ends: the script reaches the dump or the prompt, or exits
\* with a status or an exception.  p.communicate() (line 61) has no
\* timeout, so this needs a pcm-core that prints its signature and exits.
LoadingEnds == pc \in LoadPhases ~> pc \notin LoadPhases

\* A query never dies of a KeyError: once the catalog is loaded, an
\* exception can only have come before the first query.
QueryNeverRaises == pc = "crashed" => nQueries = 0
-----------------------------------------------------------------------------
(***************************************************************************)
(* The script implements the query session of spec.md.  The load phases    *)
(* map to "load"; the event-by-event scan is the processing of one query,  *)
(* which prints nothing until the scan is over and ScanDone is the         *)
(* abstract Answer.  The catalog is known once loading has finished: at    *)
(* the prompt, in a scan, after a dump or quit (status 0), or after an     *)
(* exception raised in a query (nQueries > 0).                             *)
(***************************************************************************)
WasLoaded ==
    \/ pc \in {"entry", "prompt", "scan"}
    \/ pc = "done" /\ status = 0
    \/ pc = "crashed" /\ nQueries > 0

QS == INSTANCE QuerySession WITH
        Catalogs <- {a \o b : a, b \in Range(Docs) \cup Range(LocalDocs) \cup {<<>>}},
        phase <- CASE pc \in LoadPhases        -> "load"
                   [] pc \in {"entry", "prompt"} -> "await"
                   [] pc = "scan"                -> "process"
                   [] pc = "done"                -> "exited"
                   [] pc = "crashed"             -> "failed",
        dump <- opts.all,
        catalog <- IF WasLoaded THEN Catalog ELSE <<>>,
        query <- query,
        printed <- IF pc \in {"scan", "crashed"} THEN <<>> ELSE out,
        asked <- nQueries

\* Every behaviour of the script is a behaviour of the query session: the
\* catalog is loaded once and never changes; the dump lists exactly the
\* complete events; each query prints exactly the reference answer over
\* the whole catalog, or ends in KeyError on a matching incomplete event;
\* once loaded, every query is answered without waiting.
QuerySpec == QS!QSSpec
=============================================================================
