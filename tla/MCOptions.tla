----------------------------- MODULE MCOptions -----------------------------
(* Command lines and files for TLC: URLs of every kind that Url::parse()     *)
(* tells apart, files with up to two pools, a Vega and a small GPU.          *)
EXTENDS Options

Arg(host, port) == [scheme |-> "", host |-> host, v6 |-> FALSE, port |-> port]

MCUrlArgs ==
  {Arg("a", None), Arg("b", 5555), Arg("b", 65536),
   Arg("", 80), [Arg("a", 80) EXCEPT !.scheme = "other"], [Arg("a", None) EXCEPT !.v6 = TRUE]}

MCNumbers == {-1, 1, 2, 65537}

FileUrls == {Arg("a", None), Arg("b", 5555), Arg("b", 65536), None}

FilePools == [url : FileUrls, user : BOOLEAN, variant : {None, 1}]

File(pools) ==
  [pools |-> pools, port |-> None, power_limit |-> 0, threads |-> <<>>]

MCConfigs ==
  { File(<<p>>) : p \in FilePools }
    \cup { File(<<p, q>>) :
             p \in {f \in FilePools : f.variant = None},
             q \in {f \in FilePools : f.variant = None /\ f.url # Arg("a", None)} }
    \cup { [File(<<>>) EXCEPT !.port = 65537, !.power_limit = -5],
           [File(<<>>) EXCEPT !.port = 4444, !.power_limit = 5,
                              !.threads = <<[index |-> 1, intensity |-> 90, auto |-> FALSE]>>] }

MCDevices == << [vega |-> TRUE, freeMem |-> 190, computeUnits |-> 1],
                [vega |-> FALSE, freeMem |-> 5, computeUnits |-> 1] >>
=============================================================================
