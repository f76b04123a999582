# TLA+ models of the pcm helper scripts

This directory models the Python scripts of the repository:

- `src/scripts/pmu-query.py`, with its Python 2 predecessor `src/pmu-query.py`;
- `src/scripts/pcm-win-power-tray.py`;
- `src/scripts/generate_summary.py`.

Each script has one module, and each module is checked with TLC through an
`MC_*` module and its `.cfg` files. `PROJECT.json` maps every definition to
the source lines it models. It also lists the runs, the mutants, the
findings and the hazards.

## Inventory

### pmu-query (PmuQuery.tla)

This is one sequential process. It talks to the network, to one child
process (pcm-core) and to the user.

- **State.** The state is held in module globals:
  - the options (`all_flag`, `filename`, `download_flag`);
  - the map rows;
  - `core_path` and `offcore_path`;
  - the pcm-core output;
  - `core_events` and `offcore_events`;
  - the files written under `--download`;
  - the query loop's current line.
- **Operations, in order:**
  1. getopt. A parse error exits with -2, which is status 254.
  2. Either the remote branch: fetch `mapfile.csv`, start pcm-core and
     `communicate()`, scan the rows (a later match overwrites an earlier
     one), then fetch the core document or exit with -1, then the optional
     offcore document. `--download` saves a copy of each document.
  3. Or the local branch: `-f a,b`, which appends every file to
     `core_events`.
  4. Then `--all` prints `name:description` for every event that has both
     keys and exits. Otherwise the script prompts, scans the catalog for
     each line, and stops on an empty line.
- **What is hard:**
  - how `Popen` treats a list together with `shell=True` on each platform;
  - a `communicate()` with no timeout;
  - last-match-wins on hybrid CPUs, which have several core rows;
  - KeyErrors at query time;
  - splitting EventCode;
  - whether the `--download` copies reproduce the session.
- **Correctness:**
  - pcm-core is asked for the signature, so the host is identified;
  - the rows chosen are the last matching ones;
  - the catalog is exactly the chosen documents, or the `-f` files;
  - the saved copies round-trip;
  - every answer is the reference answer;
  - the script ends.

### Power tray (PowerTray.tla)

This script has three actors that really interleave:

- the **main thread** creates the icon, starts the updater thread and runs
  `icon.run()`; the Quit callback `on_quit` runs there;
- the daemon thread **update_icon** runs `Popen(pcm.exe -r -csv 3)`, then
  assigns the global `process`. It then searches at most 1001 lines for the
  header naming `SYSTEM Energy (Joules)` and skips the second header. After
  that it redraws the icon for each parsable row until end of file;
- **pcm.exe** writes lines into a pipe and exits, is killed, or keeps running.

The shared state is the global `process`, the icon image and the pipe.

The hard part is interleaving. Quit can fall between `Popen` and the
assignment. A kill can fall during any read. End of file can come in either
loop. The counter at its bound is the other hard case.

For correctness, no pcm.exe is left behind, the thread keeps reading while
pcm.exe runs and stops once it has ended, and the reported exit code is the
real one. The colour thresholds (`Background`) are modelled, but no
property checks them: nothing outside the code states the 20 W and 30 W
edges, so a check would only compare the code with a copy of itself.

### Report generator (GenerateSummary.tla)

This is one sequential pass over a CSV:

1. argument checks;
2. header flattening;
3. a loop that inserts a `mem traffic` column after every `Socket k WRITE`
   and records its position;
4. the System Time reformat;
5. five derived frames;
6. the consolidated sheet, with the inserted columns highlighted;
7. up to five chart sheets, each adding series that read cell ranges.

What is hard is indices: the positions recorded before later inserts, a
`count` that ends at sockets - 1 (which is -1 when there are no sockets), and
chart ranges computed from frame shapes.

For correctness, the highlights must mark the inserted columns, every chart
must read cells that hold data, and the time column must be reformatted.

### Not modelled

- pcm-core and pcm.exe themselves are not in this repository. They appear
  only as the output the scripts read.
- Cell values, means, `read * write / 950`, fonts, image pixels and the xlsx
  and CSV encodings are data that no property distinguishes.
- Network fetches and file I/O appear only as success or an uncaught
  exception.

## Modules and how they correspond to the code

| Module | State (VARIABLES) | Actions |
|---|---|---|
| `PmuQuery` | `pc` (the script's position), `env` (platform, whether pcm-core is installed, CPU), `opts`, `rows`, `helper` (pcm-core), `output`, `i`, `corePath`, `offcorePath`, `coreEvents`, `offcoreEvents`, `fetched`, `written`, `files`, `query`, `j`, `out`, `nQueries`, `status` | `GetOpt`, `FetchMap`, `Spawn`, `Communicate`, `HelperMonitor`, `ResolveRow`, `ResolveDone`, `FetchCore`, `FetchOffcore`, `LoadFile`, `Dump`, `Prompt`, `ScanEvent`, `ScanDone`, `Terminated` |
| `PowerTray` | `main`, `visible`, `icon`, `process`, `upd` (the thread's position), `count`, `child`, `script`, `pipe`, `code`, `seen`, `reported`, `quitError` | `MainStart`, `OnQuit`, `MainExit`, `Popen`, `Assign`, `HeaderLine`, `SkipLine`, `DataLine`, `ChildWrite`, `ChildExit`, `Stopped` |
| `QuerySession` | `phase` ("load", "await", "process", "exited", "failed"), `dump`, `catalog`, `query`, `printed`, `asked` | `Load`, `Stop`, `Dump`, `Ask`, `Answer`, `Raise`, `Quit` (the abstract session of spec.md 4.3 and 5) |
| `GenerateSummary` | `pc`, `input`, `sockets`, `nrows`, `argv`, `df` (the column list), `count`, `added`, `arguments`, `timeDone`, `chart`, `sheets`, `series`, `highlighted` | `NoInput`, `ReadCsv`, `SocketStep`, `Reformat`, `Consolidated`, `ChartSheet`, `Finished` |

How the data is abstracted:

- **Strings that properties look into are sequences of characters:** event
  names, queries, EventCode and the `-f` argument. That way `lower()`, `in`
  and `split` are modelled by what they do, through `Lower`, `SubSeqs` and
  `SplitSeq`.
- **Paths are sequences of segments.** `split('/')[-1]` is the last segment.
- **The pcm-core command** is a Popen list of strings, each string given as
  its words. `HelperArgv` gives the argv the program actually receives:
  Windows joins the list, and POSIX keeps only the first item.
- **A JSON event** is a function from its present keys to values, so
  `"EventName" in event` is `\in DOMAIN`. A missing key is a KeyError, and a
  KeyError ends the script.
- **Exit statuses** are taken `% 256`, so `sys.exit(-1)` gives 255.
- **In the tray**, a CSV line is a record of its kind and, for a sample, its
  joules. The icon is the pair of the rounded watts and the background
  colour. The first image's text "P" is the model value `LetterP`, because
  TLC cannot compare a string with the numbers of the other images.
- **Constants** are constrained by an `ASSUME` after each CONSTANTS block
  (the variant, the bounds, and that a query is never the empty line).
- **Hazards without a property:** pcm.exe's stderr pipe is never read, so
  pcm.exe could block on it. How much pcm.exe writes there is outside this
  repository, so the model has no stderr stream.
- **In the report generator**, a column is `<<group, name>>` and coordinates
  follow `to_excel`: row 0 is the header and column 0 is the index.

## Runs

| Run | Config | Expect | What it shows |
|---|---|---|---|
| pmu_py3_safety | `MC_PmuQuery_py3.cfg` | pass | On all four platforms, with and without pcm-core installed, for both CPUs, both maps, every option combination and up to two queries: `LastMatchWins`, `LoadedCatalog` and `TypeOK` hold, and the script implements the abstract session (`QuerySpec`) |
| pmu_py2_identify | `MC_PmuQuery_py2_term.cfg` | pass | The Python 2 script asks pcm-core for `-c` on every platform (`IdentifiesHost`) so loading always ends (`LoadingEnds`), although `p.communicate()` has no timeout |
| pmu_py3_identify | `MC_PmuQuery_py3_ident.cfg` | violation | On Linux the Python 3 script drops `-c`, so the host is never identified |
| pmu_keyerror | `MC_PmuQuery_keyerror.cfg` | violation | An event without BriefDescription makes a query raise KeyError |
| pmu_eventcode | `MC_PmuQuery_tight.cfg` | violation | EventCode `1,2` is not split into two codes, so the script no longer implements `QuerySpec` |
| tray_icon | `MC_PowerTray.cfg` | pass | Under every interleaving, update_icon never stops while pcm.exe runs (`NoChildBehindThread`); once pcm.exe has ended, update_icon stops reading, by end of file or by StopIteration in the header search (`UpdaterFollowsChild`); once the header is found, the data loop reads everything pcm.exe writes, skipping rows that do not parse (`DrainsOutput`) |
| tray_orphan | `MC_PowerTray_NoOrphan.cfg` | violation | Quit before `process` is assigned leaves pcm.exe running |
| tray_exitcode | `MC_PowerTray_ReportsExitCode.cfg` | violation | The reported exit code is `None` |
| summary_highlight | `MC_GenerateSummary.cfg` | pass | The recorded insert positions still name the mem traffic columns (0 to 3 sockets) (`HighlightMemTraffic`) |
| summary_charts | `MC_GenerateSummary_ChartsInRange.cfg` | violation | Chart 5 reads one row past its data (`df4.shape` at line 214) |
| summary_time | `MC_GenerateSummary_TimeColumnReformatted.cfg` | violation | A CSV capture with two rows keeps its old System Time format. Only a one-row capture is reformatted |
| summary_input | `MC_GenerateSummary_InputErrors.cfg` | violation | A chart name given without its `-` ends in an IndexError traceback after the CSV is read, while every other bad invocation gets a message |

### The refinement

`QuerySession` states what spec.md promises of a session, without the
script's steps. A catalog is loaded once, or the session stops while
loading. The catalog is then read-only. In dump mode, `Dump` prints
`SpecListing` and exits. Otherwise `Ask(q)` and `Answer` alternate.
`Answer` prints `SpecAnswer` in one step. `SpecAnswer` is a recursive
reference definition written from spec.md 4.3. It splits EventCode at every
comma and orders the clauses by the spec's list. `Raise` ends the session
when a matching event lacks a field the answer needs.

`PmuQuery` instantiates it (`QS == INSTANCE QuerySession WITH ...`), and
`QuerySpec == QS!QSSpec` is checked as a PROPERTY. The mapping works as
follows:

- All load phases map to "load".
- The event-by-event scan maps to "process". While it runs, the abstract
  `printed` is empty. `ScanDone` is the abstract `Answer`, so what the scan
  accumulated must equal the reference answer at that step.
- The catalog is `core_events + offcore_events` once loading has finished
  (`WasLoaded`), and empty before. Because it is the same abstract variable
  in every later step, the check also shows that nothing changes the
  catalog between queries.
- The abstract fairness (`Dump`, `Answer` and `Raise` are weakly fair) is
  implied by the script's fairness on its own steps (`ScriptStep`). Loading
  has no abstract fairness, because pcm-core may monitor forever.

Every property of a passing run has a mutant in `PROJECT.json`, and TLC
finds that mutant's property violated under the run's cfg.

## Bounds and why they are enough

- **pmu-query.** There are two CPUs. One map has a Skylake-SP entry with
  core, offcore and uncore rows, and an Alder Lake entry with two matching
  core rows (Atom, then Core), as in the real mapfile. A second map has the
  offcore row before the core row. There are three events, plus a metadata
  object without EventName:
  - one event has two codes and non-zero `MSRValue` and `AnyThread`;
  - one event has non-zero `Invert`, `EdgeDetect` and `CounterMask`;
  - one event's name differs only in case.

  The queries are `b`, which hits all three events, and `A`, which hits two
  and needs `lower()`. `MaxQueries = 2` allows a second query after the
  first. The `-f` choices are `x,y` (two files, in order) and `z` (a missing
  file).
- **PowerTray.** `HeaderScanLimit = 2` stands for 1000, so the guard fires
  after three noise lines. There are four pcm.exe outputs: a normal run with
  a bad row, a run that never ends, a run without the energy column, and a
  run that dies before its header. Samples of 60, 62, 90 and 91 J sit on
  both sides of the 20 W and 30 W edges.
- **GenerateSummary.** There are 0 to 3 sockets, so each insert shifts up
  to two later positions, and there are 0, 1 or 2 rows.

## Fairness

- `PmuQuery` is a single-threaded script. Its fairness is
  `WF_vars(ScriptStep)`, weak fairness on every step except `Prompt`. The
  user may never answer `input()`, so the script need not end. The
  liveness property is therefore stated for loading only (`LoadingEnds`).
  Loading reads no user input.
- `GenerateSummary` reads no input after it starts, so `WF_vars(Next)` is
  enough.
- `UpdaterFollowsChild` and `DrainsOutput` hold whatever the user does,
  because both also allow the application to have exited.
- `PowerTray` has weak fairness on each thread's steps and on pcm.exe, which
  reflects the OS scheduler. There is none on `OnQuit`, because the user
  never has to quit.
- Deadlock checking stays on. A finished script is an explicit stuttering
  action (`Terminated`, `Stopped`, `Finished`), and so is pcm-core
  monitoring forever (`HelperMonitor`).

## Plan

Done:
- `PmuQuery` (both variants), `PowerTray` and `GenerateSummary`, with the runs above.
- The abstract `QuerySession` and the refinement `QuerySpec`.
- Liveness and safety of update_icon against pcm.exe ending.
- `DrainsOutput`: the data loop keeps reading pcm.exe's output, so the
  pipe cannot fill while the tray runs.
- The IndexError on arguments without `-`.
- `LoadingEnds` for the Python 2 script, with the user left unfair.

What is left, and why it is not modelled:
- **A failure between the two downloads.** The copies already written stay
  on disk. spec.md 7 says there are no partial-failure semantics, so this
  is the specified behaviour, not a property to check.
- **Saved files with the same basename.** A core and an offcore document
  with the same last path segment would overwrite each other. The map
  files in the model have no such pair, because no real perfmon map has one.
  A model input built to collide would only show the invented case. No
  property is stated about the saved files: in a session that loaded, they
  are exactly what `Save` writes.
- **pcm.exe blocking on its unread stderr pipe.** This depends on how much
  pcm.exe writes there, and pcm.exe is not in this repository.
- **Map coverage of the Python 2 script.** It has the same control flow as
  the Python 3 script, and `PmuQuery` models both through `Variant`. Only
  its pcm-core command differs and has a definition of its own. Mapping
  the shared definitions a second time would duplicate them. The query
  loop of the Python 2 script is the same definitions, so it is not checked
  against `QuerySpec` a second time.
- **pcm.exe and pcm-core themselves.** Their source is not under `src/`.
  `ChildWrite` and `ChildExit` describe pcm.exe only as the output the tray
  reads. The map marks them as modelled from the spec, because no line of
  `src/` is their code.
- **Error paths left out.** `Popen` failing on a missing pcm.exe kills
  only the thread, the same outcome as StopIteration in the header search.
  `EOFError` from `input()` at end of stdin is an exception, like the one
  the `Crash` step already models. `re.error` on a malformed map pattern
  cannot happen, because `Matches` is total over the real map.
