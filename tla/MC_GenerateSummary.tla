------------------------- MODULE MC_GenerateSummary -------------------------
(***************************************************************************)
(* Captures of 0 to 3 sockets and 0 to 2 rows; the arguments: none, two    *)
(* chart names, a name whose case differs from the one tested, a "--" and  *)
(* an argument without a dash.                                            *)
(***************************************************************************)
EXTENDS GenerateSummary

MCArgLists ==
    { <<>>,
      << <<"", "cpu_util_socket">>, <<"", "Mem_traffic_time">> >>,
      << <<"", "mem_traffic_time">> >>,
      << <<"", "", "sys_exec_time">> >>,
      << <<"cpu_util_time">> >> }
=============================================================================
