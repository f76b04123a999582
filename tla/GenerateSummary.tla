--------------------------- MODULE GenerateSummary ---------------------------
(***************************************************************************)
(* src/scripts/generate_summary.py: one pass over a pcm CSV capture.  The  *)
(* data is abstracted to the table's shape: the columns (a two-row header  *)
(* flattened to <<group, name>>), the number of data rows, and for every   *)
(* sheet written its size and the cell ranges its chart series read.       *)
(* Excel coordinates are 0-based with row 0 the header and column 0 the    *)
(* DataFrame index, as to_excel writes them.  A command-line argument is   *)
(* given as its '-'-separated pieces, so arg.split('-') is the sequence.   *)
(***************************************************************************)
EXTENDS Integers, Sequences, SequencesExt

CONSTANTS
    SocketCounts,  \* sockets a capture may have
    MaxRows,       \* bound on the data rows of a capture
    ArgLists       \* sys.argv[2:] choices, each argument as its '-' pieces

ASSUME SocketCounts \subseteq Nat /\ MaxRows \in Nat

VARIABLES
    pc, input, sockets, nrows, argv, df, count, added, arguments, timeDone,
    chart, sheets, series, highlighted

vars == <<pc, input, sockets, nrows, argv, df, count, added, arguments, timeDone,
          chart, sheets, series, highlighted>>

\* The capture pcm writes: System columns, then per socket EXEC, READ, WRITE.
\* A column is <<group, name>>; the group is <<"System">> or <<"Socket", s>>.
Sock(s) == <<"Socket", s>>
Layout(k) ==
    <<<<<<"System">>, "Date">>, <<<<"System">>, "Time">>, <<<<"System">>, "EXEC">>>> \o
    FlattenSeq([s \in 1..k |-> <<<<Sock(s - 1), "EXEC">>, <<Sock(s - 1), "READ">>,
                                  <<Sock(s - 1), "WRITE">>>>])

\* df.columns.get_loc(name): 0-based position of the column.
GetLoc(col) == SelectInSeq(df, LAMBDA c : c = col) - 1

ChartNames == <<"sys_exec_time", "cpu_util_time", "mem_traffic_time",
                "cpu_util_socket", "Mem_traffic_time">>
Selected(k) == ChartNames[k] \in ToSet(arguments) \/ arguments = <<>>

\* Shapes (rows, columns) of df1..df5 for count + 1 sockets.
Shape(k) ==
    LET m == count + 1 IN
    CASE k = 1 -> <<nrows, 2>>
      [] k \in {2, 3} -> <<nrows, m + 1>>
      [] k = 4 -> <<m + 1, 1>>
      [] k = 5 -> <<m, 1>>

\* The series chart k adds, as [sheet, r1, r2, col] cell ranges of its sheet
\* (categories and values; the `name` cell is in the header row).
Cells(k, r2, col) == [sheet |-> k, r1 |-> 1, r2 |-> r2, col |-> col]
Series(k) ==
    LET maxRow == IF k = 5 THEN Shape(4)[1] ELSE Shape(k)[1]   \* line 214: df4.shape
    IN  CASE k = 1 -> {Cells(k, maxRow, 1), Cells(k, maxRow, 2)}
          [] k \in {2, 3} ->
               UNION {{Cells(k, maxRow, 1), Cells(k, maxRow, i + 2)} : i \in 0..(Shape(k)[2] - 2)}
          [] k \in {4, 5} -> {Cells(k, maxRow, 0), Cells(k, maxRow, 1)}
-----------------------------------------------------------------------------
Init ==
    /\ input \in {"none", "csv", "help", "unreadable"}   \* sys.argv[1]
    /\ sockets \in SocketCounts /\ nrows \in 0..MaxRows /\ argv \in ArgLists
    /\ pc = "read" /\ df = <<>> /\ count = 0 /\ added = <<>> /\ arguments = <<>>
    /\ timeDone = FALSE /\ chart = 1 /\ sheets = <<>> /\ series = {} /\ highlighted = {}

\* Lines 14-33: without a file name, or when read_csv fails (--help
\* included), print a message and exit().
NoInput ==
    /\ pc = "read" /\ input # "csv"
    /\ pc' = "done"
    /\ UNCHANGED <<input, chart, sockets, nrows, argv, df, count, added, arguments, timeDone,
                   sheets, series, highlighted>>

\* Lines 18-49: read the CSV with its two header rows, take the chart
\* names from the arguments (an argument without '-' raises IndexError),
\* and flatten the header.
ReadCsv ==
    /\ pc = "read" /\ input = "csv"
    /\ df' = Layout(sockets)
    /\ IF \A a \in ToSet(argv) : Len(a) >= 2
         THEN arguments' = [a \in 1..Len(argv) |-> argv[a][2]] /\ pc' = "sockets"
         ELSE pc' = "crashed" /\ UNCHANGED arguments
    /\ UNCHANGED <<input, chart, sockets, nrows, argv, count, added, timeDone, sheets, series, highlighted>>

\* Lines 55-64: while 'Socket <count> WRITE' exists, insert the socket's
\* mem traffic column right after it and remember where; then count - 1.
SocketStep ==
    /\ pc = "sockets"
    /\ IF <<Sock(count), "WRITE">> \in ToSet(df)
         THEN LET at == GetLoc(<<Sock(count), "WRITE">>) + 1 IN
              /\ added' = Append(added, at)
              /\ df' = InsertAt(df, at + 1, <<Sock(count), "mem traffic">>)
              /\ count' = count + 1
              /\ UNCHANGED pc
         ELSE count' = count - 1 /\ pc' = "time" /\ UNCHANGED <<added, df>>
    /\ UNCHANGED <<input, chart, sockets, nrows, argv, arguments, timeDone, sheets, series, highlighted>>

\* Lines 66-76: the loop body only sets `format`; one value, from the last
\* row, is formatted, and assigning a one-element list to the column fails
\* (and is swallowed) unless the capture has exactly one row.
Reformat ==
    /\ pc = "time"
    /\ timeDone' = (nrows = 1)
    /\ pc' = "consolidated"
    /\ UNCHANGED <<input, chart, sockets, nrows, argv, df, count, added, arguments, sheets, series, highlighted>>

\* Mutant: the highlight forgets the index column.
ConsolidatedNoShift ==
    /\ pc = "consolidated"
    /\ sheets' = <<0>>
    /\ highlighted' = {added[a] : a \in DOMAIN added}
    /\ pc' = "charts"
    /\ UNCHANGED <<input, chart, sockets, nrows, argv, df, count, added, arguments, timeDone, series>>

\* Lines 79-128: df1..df5, the consolidated sheet, and a highlight on the
\* Excel column of every inserted column (index + 1: the index column).
Consolidated ==
    /\ pc = "consolidated"
    /\ sheets' = <<0>>                       \* sheet 0: 'consolidated'
    /\ highlighted' = {added[a] + 1 : a \in DOMAIN added}
    /\ pc' = "charts"
    /\ UNCHANGED <<input, chart, sockets, nrows, argv, df, count, added, arguments, timeDone, series>>

\* Mutant: the chart loop runs one sheet past the last chart.
ChartSheetPastLast ==
    /\ pc = "charts"
    /\ IF Selected(chart)
         THEN /\ sheets' = Append(sheets, chart)
              /\ series' = series \cup Series(chart)
         ELSE UNCHANGED <<sheets, series>>
    /\ IF chart > 5 THEN pc' = "done" /\ UNCHANGED chart
                    ELSE chart' = chart + 1 /\ UNCHANGED pc
    /\ UNCHANGED <<input, sockets, nrows, argv, df, count, added, arguments, timeDone, highlighted>>

\* Lines 130-226: the k-th chart sheet, when selected.
ChartSheet ==
    /\ pc = "charts"
    /\ IF Selected(chart)
         THEN /\ sheets' = Append(sheets, chart)
              /\ series' = series \cup Series(chart)
         ELSE UNCHANGED <<sheets, series>>
    /\ IF chart = 5 THEN pc' = "done" /\ UNCHANGED chart
                    ELSE chart' = chart + 1 /\ UNCHANGED pc
    /\ UNCHANGED <<input, sockets, nrows, argv, df, count, added, arguments, timeDone, highlighted>>

Finished == pc \in {"done", "crashed"} /\ UNCHANGED vars

Next == NoInput \/ ReadCsv \/ SocketStep \/ Reformat \/ Consolidated \/ ChartSheet \/ Finished

Spec == Init /\ [][Next]_vars /\ WF_vars(Next)
-----------------------------------------------------------------------------
TypeOK ==
    /\ pc \in {"read", "sockets", "time", "consolidated", "charts", "done", "crashed"}
    /\ count \in -1..Max(SocketCounts) /\ chart \in 1..5
    /\ added \in Seq(Nat) /\ highlighted \subseteq Nat /\ timeDone \in BOOLEAN
    /\ sheets \in Seq(0..5) /\ arguments \in Seq(STRING)

\* Once the consolidated sheet is written, the highlighted Excel columns
\* are exactly those holding a 'Socket <s> mem traffic' column: the
\* positions recorded while inserting are still right after all inserts.
HighlightMemTraffic ==
    pc \in {"charts", "done"} =>
        highlighted = {p \in DOMAIN df : df[p][2] = "mem traffic"}

\* Every chart series reads cells that hold data: rows 1..rows and the
\* index column 0 or a data column of the sheet it is drawn from.
ChartsInRange ==
    \A r \in series :
        /\ 1 <= r.r1 /\ r.r2 <= Shape(r.sheet)[1]
        /\ r.col \in 0..Shape(r.sheet)[2]

\* Every wrong invocation ends with one of the messages of lines 15-32
\* (no file name, unreadable file, help), never with a traceback.
InputErrorsReported == pc # "crashed"

\* A report made from a CSV capture with data rows shows System Time in
\* the new format for every row (the loop of lines 69-70 must convert each).
TimeColumnReformatted == input = "csv" /\ nrows > 0 /\ pc \in {"charts", "done"} => timeDone
=============================================================================
