----------------------------- MODULE PowerTray -----------------------------
(***************************************************************************)
(* src/scripts/pcm-win-power-tray.py.  Three actors: the main thread, which *)
(* builds the tray icon and then runs its event loop (the Quit callback     *)
(* on_quit runs there); the daemon thread update_icon, which starts pcm.exe *)
(* and follows its CSV output; and the pcm.exe child, which writes lines    *)
(* into a pipe.  The global `process` is shared between the two threads.    *)
(* A CSV line is a record: its kind and, for a sample row, the SYSTEM       *)
(* Energy (Joules) value of the 3-second interval.                          *)
(***************************************************************************)
EXTENDS Integers, Sequences

CONSTANTS
    Streams,         \* what pcm.exe may print: [lines : Seq(Line), ends : BOOLEAN]
    ExitCodes,       \* exit codes pcm.exe may end with
    HeaderScanLimit, \* the 1000 of `if (count > 1000)`
    None,            \* Python's None
    LetterP          \* the text "P" of the first image (a model value: the
                     \* other texts are numbers)

ASSUME HeaderScanLimit \in Nat
ASSUME None \notin ExitCodes

VARIABLES
    main,      \* main thread: "init", "running" (inside icon.run()), "exited"
    visible,   \* icon.run() has not been stopped
    icon,      \* the image shown: <<text, background>>
    process,   \* the global `process`: "None" or "set"
    upd,       \* update_icon's position, "dead" after an uncaught exception
    count,     \* header lines examined
    child,     \* pcm.exe: "none", "running", "exited", "killed"
    script,    \* lines pcm.exe has still to print, and whether it then ends
    pipe,      \* lines written to stdout and not yet read
    code,      \* pcm.exe's exit code once it has exited
    seen,      \* the lines the data loop has read, in order
    reported,  \* what `pcm.exe exited with code ...` printed
    quitError  \* on_quit raised AttributeError on process.kill()

vars == <<main, visible, icon, process, upd, count, child, script, pipe, code,
          seen, reported, quitError>>

Running == main = "running"   \* the daemon thread dies with the interpreter

\* create_image(f"{w:.0f}", colour) for an energy of j joules over 3 s.
Watts(j) == (j + 1) \div 3               \* j / 3.0 rounded to the nearest
Background(j) ==
    CASE j > 3 * 30 -> "red"
      [] j > 3 * 20 -> "darkblue"
      [] OTHER      -> "darkgreen"
Image(j) == <<Watts(j), Background(j)>>
StartImage == <<LetterP, "darkblue">>

\* readline(): the next line, "" at end of file once pcm.exe is gone;
\* it blocks while the pipe is empty and pcm.exe is alive.
\* Mutant: readline() returns "" at once on an empty pipe.
CanReadNonBlocking == TRUE
\* Mutant: readline() keeps blocking on a pipe whose writer is gone.
CanReadPipeOnly == pipe # <<>>
CanRead == pipe # <<>> \/ child \in {"exited", "killed"}
AtEOF == pipe = <<>>
Kill == child' = IF child = "running" THEN "killed" ELSE child
-----------------------------------------------------------------------------
Init ==
    /\ main = "init" /\ visible = FALSE /\ icon = <<>> /\ process = None
    /\ upd = "start" /\ count = 0 /\ child = "none"
    /\ script = [lines |-> <<>>, ends |-> TRUE] /\ pipe = <<>> /\ code = None
    /\ seen = <<>> /\ reported = <<>> /\ quitError = FALSE

\* main(), lines 109-122: the first image, the thread, then icon.run().
MainStart ==
    /\ main = "init"
    /\ main' = "running" /\ visible' = TRUE /\ icon' = StartImage
    /\ UNCHANGED <<process, upd, count, child, script, pipe, code, seen, reported, quitError>>

\* on_quit, lines 105-107: icon.stop(), then process.kill() on the global.
OnQuit ==
    /\ Running /\ visible
    /\ visible' = FALSE
    /\ IF process = None
         THEN quitError' = TRUE /\ UNCHANGED child
         ELSE Kill /\ UNCHANGED quitError
    /\ UNCHANGED <<main, icon, process, upd, count, script, pipe, code, seen, reported>>

\* icon.run() returns after stop(); main() returns and the interpreter exits.
MainExit ==
    /\ Running /\ ~visible
    /\ main' = "exited"
    /\ UNCHANGED <<visible, icon, process, upd, count, child, script, pipe, code,
                   seen, reported, quitError>>

\* Line 40: subprocess.Popen starts pcm.exe ...
Popen ==
    /\ Running /\ upd = "start"
    /\ child' = "running" /\ script' \in Streams /\ upd' = "assign"
    /\ UNCHANGED <<main, visible, icon, process, count, pipe, code, seen, reported, quitError>>

\* ... and only when it has returned is the global assigned.
Assign ==
    /\ Running /\ upd = "assign"
    /\ process' = "set" /\ upd' = "header" /\ count' = 0
    /\ UNCHANGED <<main, visible, icon, child, script, pipe, code, seen, reported, quitError>>

\* Mutant: the count > 1000 guard dropped.
HeaderLineUnbounded ==
    /\ Running /\ upd = "header" /\ CanRead
    /\ count' = count + 1
    /\ IF AtEOF
         THEN upd' = "dead" /\ UNCHANGED pipe
         ELSE /\ pipe' = Tail(pipe)
              /\ upd' = IF Head(pipe).kind = "header" THEN "skip" ELSE "header"
    /\ UNCHANGED <<main, visible, icon, process, child, script, code, seen, reported, quitError>>

\* Lines 50-66: look for the header naming SYSTEM Energy (Joules).  After
\* HeaderScanLimit + 1 lines: kill pcm.exe and exit(0), which ends only this
\* thread.  At end of file next(csv_reader) raises StopIteration.
HeaderLine ==
    /\ Running /\ upd = "header"
    /\ \/ /\ count > HeaderScanLimit
          /\ Kill /\ upd' = "done"
          /\ UNCHANGED <<count, pipe>>
       \/ /\ count <= HeaderScanLimit /\ CanRead
          /\ count' = count + 1
          /\ IF AtEOF
               THEN upd' = "dead" /\ UNCHANGED pipe
               ELSE /\ pipe' = Tail(pipe)
                    /\ upd' = IF Head(pipe).kind = "header" THEN "skip" ELSE "header"
          /\ UNCHANGED child
    /\ UNCHANGED <<main, visible, icon, process, script, code, seen, reported, quitError>>

\* Line 69: the second header line is read and dropped.
SkipLine ==
    /\ Running /\ upd = "skip" /\ CanRead
    /\ pipe' = IF AtEOF THEN pipe ELSE Tail(pipe)
    /\ upd' = "data"
    /\ UNCHANGED <<main, visible, icon, process, count, child, script, code, seen,
                   reported, quitError>>

\* Mutant: a row without the energy value is parsed again instead of skipped.
DataLineStallOnBad ==
    /\ Running /\ upd = "data" /\ CanRead
    /\ IF AtEOF
         THEN /\ upd' = "done" /\ reported' = <<None>>
              /\ UNCHANGED <<icon, pipe, seen>>
         ELSE /\ pipe' = IF Head(pipe).kind = "sample" THEN Tail(pipe) ELSE pipe
              /\ seen' = IF Head(pipe).kind = "sample" THEN Append(seen, Head(pipe)) ELSE seen
              /\ icon' = IF Head(pipe).kind = "sample" THEN Image(Head(pipe).joules)
                         ELSE icon
              /\ UNCHANGED <<upd, reported>>
    /\ UNCHANGED <<main, visible, process, count, child, script, code, quitError>>

\* Lines 71-103: one line of data.  A sample row redraws the icon; a row
\* whose field is missing or not a float is skipped; "" ends the loop and
\* the thread prints process.returncode, which nothing has polled.
DataLine ==
    /\ Running /\ upd = "data" /\ CanRead
    /\ IF AtEOF
         THEN /\ upd' = "done" /\ reported' = <<None>>
              /\ UNCHANGED <<icon, pipe, seen>>
         ELSE /\ pipe' = Tail(pipe) /\ seen' = Append(seen, Head(pipe))
              /\ icon' = IF Head(pipe).kind = "sample" THEN Image(Head(pipe).joules)
                         ELSE icon
              /\ UNCHANGED <<upd, reported>>
    /\ UNCHANGED <<main, visible, process, count, child, script, code, quitError>>

\* pcm.exe prints its next line.
ChildWrite ==
    /\ child = "running" /\ script.lines # <<>>
    /\ pipe' = Append(pipe, Head(script.lines))
    /\ script' = [script EXCEPT !.lines = Tail(@)]
    /\ UNCHANGED <<main, visible, icon, process, upd, count, child, code, seen,
                   reported, quitError>>

\* pcm.exe ends by itself (e.g. it cannot open the counters).
ChildExit ==
    /\ child = "running" /\ script.lines = <<>> /\ script.ends
    /\ child' = "exited" /\ code' \in ExitCodes
    /\ UNCHANGED <<main, visible, icon, process, upd, count, script, pipe, seen,
                   reported, quitError>>

\* The interpreter has exited; a pcm.exe nobody killed may still run.
Stopped == main = "exited" /\ UNCHANGED vars

Next ==
    \/ MainStart \/ OnQuit \/ MainExit \/ Stopped
    \/ Popen \/ Assign \/ HeaderLine \/ SkipLine \/ DataLine
    \/ ChildWrite \/ ChildExit

\* The OS schedules both threads and the child; the user never has to quit.
Fairness ==
    /\ WF_vars(MainStart) /\ WF_vars(MainExit)
    /\ WF_vars(Popen) /\ WF_vars(Assign) /\ WF_vars(HeaderLine)
    /\ WF_vars(SkipLine) /\ WF_vars(DataLine)
    /\ WF_vars(ChildWrite) /\ WF_vars(ChildExit)

Spec == Init /\ [][Next]_vars /\ Fairness
-----------------------------------------------------------------------------
Line == [kind : {"noise", "header", "units", "sample", "bad"}, joules : Nat]

TypeOK ==
    /\ main \in {"init", "running", "exited"} /\ visible \in BOOLEAN
    /\ process \in {None, "set"}
    /\ upd \in {"start", "assign", "header", "skip", "data", "done", "dead"}
    /\ count \in 0..(HeaderScanLimit + 1)
    /\ child \in {"none", "running", "exited", "killed"}
    /\ pipe \in Seq(Line) /\ seen \in Seq(Line)
    /\ code \in ExitCodes \cup {None} /\ quitError \in BOOLEAN

\* Once pcm.exe has ended (by itself, or killed by Quit or by the header
\* search giving up), update_icon stops reading: it leaves its loop at end
\* of file, or dies of StopIteration in the header search, unless the whole
\* application has already exited.
UpdaterFollowsChild ==
    child \in {"exited", "killed"} ~> (upd \in {"done", "dead"} \/ main = "exited")

\* Once the header is found, the data loop reads everything pcm.exe writes:
\* eventually the pipe is empty and pcm.exe has nothing more to print or
\* has ended, unless the application has exited.  Rows that do not parse
\* are skipped (line 101), they do not end the loop.
DrainsOutput ==
    upd = "data" ~>
        (main = "exited" \/ (pipe = <<>> /\ (script.lines = <<>> \/ child # "running")))

\* update_icon never stops while its pcm.exe still runs: it sees end of
\* file only from a pcm.exe that has ended, and gives up on the header only
\* after killing it.
NoChildBehindThread == upd \in {"done", "dead"} => child # "running"

\* When the tray application has exited, no pcm.exe it started is left running.
NoOrphan == main = "exited" => child # "running"

\* The line `pcm.exe exited with code ...` shows pcm.exe's exit code.
ReportsExitCode == reported # <<>> => reported = <<code>>
=============================================================================
