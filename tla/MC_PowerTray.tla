--------------------------- MODULE MC_PowerTray ---------------------------
(***************************************************************************)
(* pcm.exe outputs for PowerTray: a normal run with a noise line, both     *)
(* headers, samples at the 30 W and 20 W edges and a row that does not     *)
(* parse; a run that keeps going without ending; a run without the energy *)
(* column; and a run that dies before its header.                          *)
(***************************************************************************)
EXTENDS PowerTray

L(kind) == [kind |-> kind, joules |-> 0]
S(j) == [kind |-> "sample", joules |-> j]

MCStreams ==
    { [lines |-> <<L("noise"), L("header"), L("units"), S(91), L("bad"), S(60)>>, ends |-> TRUE],
      [lines |-> <<L("header"), L("units"), S(90), S(62)>>, ends |-> FALSE],
      [lines |-> <<L("noise"), L("noise"), L("noise"), L("noise")>>, ends |-> TRUE],
      [lines |-> <<L("noise")>>, ends |-> TRUE] }
=============================================================================
