---------------------------- MODULE MC_PmuQuery ----------------------------
(***************************************************************************)
(* A small perfmon world for PmuQuery: two CPUs, a Skylake-SP entry with   *)
(* core, offcore and uncore rows, and an Alder Lake entry with two core    *)
(* rows (Atom, then Core) that both match the same signature, as in the    *)
(* real mapfile.csv.  Event names are over {a, A, b, B} so that lower()    *)
(* matters, and EventCode may hold "1, 2".                                 *)
(***************************************************************************)
EXTENDS PmuQuery

MCChars == {"a", "A", "b", "B", "1", "2", ",", " ", "x", "y", "z"}
MCLowerChar == [c \in MCChars |-> CASE c = "A" -> "a" [] c = "B" -> "b" [] OTHER -> c]

Ev(name, desc, code, umask, msr, inv, any, edge, cmask) ==
    [EventName |-> name, BriefDescription |-> desc, EventCode |-> code,
     UMask |-> umask, MSRValue |-> msr, Invert |-> inv, AnyThread |-> any,
     EdgeDetect |-> edge, CounterMask |-> cmask]

\* An offcore event with two codes, a plain core event, and an object
\* without EventName.
EvA == Ev(<<"a", "B">>, "dA", <<"1", ",", " ", "2">>, "1", "3", "0", "1", "0", "0")
EvB == Ev(<<"b">>, "dB", <<"2">>, "0", "0", "1", "0", "1", "2")
EvC == Ev(<<"B", "a">>, "dC", <<"1">>, "2", "0", "0", "0", "0", "0")
NoName == [BriefDescription |-> "meta"]

SkxCore == <<"", "SKX", "skx_core.json">>
SkxOff  == <<"", "SKX", "skx_offcore.json">>
SkxUnc  == <<"", "SKX", "skx_uncore.json">>
AdlAtom == <<"", "ADL", "adl_gracemont_core.json">>
AdlCore == <<"", "ADL", "adl_goldencove_core.json">>

Row(fm, type, file) == [fm |-> fm, type |-> type, file |-> file]
MCMapFiles ==
    { << Row("pSKX", "core", SkxCore), Row("pSKX", "offcore", SkxOff),
         Row("pSKX", "uncore", SkxUnc), Row("pADL", "core", AdlAtom),
         Row("pADL", "core", AdlCore) >>,
      << Row("pSKX", "offcore", SkxOff), Row("pSKX", "core", SkxCore) >> }

MCMatches(p, s) == <<p, s>> \in {<<"pSKX", "skx">>, <<"pADL", "adl">>}

MCDocs == (SkxCore :> <<NoName, EvA>>) @@ (SkxOff :> <<EvB>>) @@
          (AdlAtom :> <<EvC>>) @@ (AdlCore :> <<EvA, EvC>>)

MCLocalDocs == (<<"x">> :> <<EvB, EvA>>) @@ (<<"y">> :> <<EvC>>)

MCArgvs ==
    [error : {FALSE}, all : BOOLEAN, download : BOOLEAN,
     file : {<<>>, <<"x", ",", "y">>, <<"z">>}]
    \cup {[error |-> TRUE, all |-> FALSE, download |-> FALSE, file |-> <<>>]}

\* Variants of the Skylake-SP offcore document: an event without
\* BriefDescription, and an EventCode written without the space.
EvBNoDesc == [k \in DOMAIN EvB \ {"BriefDescription"} |-> EvB[k]]
EvBTight == [EvB EXCEPT !["EventCode"] = <<"1", ",", "2">>]
MCDocsNoDesc == (SkxOff :> <<EvBNoDesc>>) @@ MCDocs
MCDocsTight == (SkxOff :> <<EvBTight>>) @@ MCDocs

MCQueries == {<<"b">>, <<"A">>}
=============================================================================
