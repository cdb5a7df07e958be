---------------------------- MODULE MCClientDriver ----------------------------
(* Model values for ClientDriver: two TO1 URLs, To1d address lists that    *)
(* exercise every skip and every default port, and three client runs (DI,  *)
(* a transfer, and a run after it).                                        *)
EXTENDS ClientDriver

MCNumTo1 == 2
MCRvChoices ==
  { <<>>,
    << [host |-> "none", proto |-> "http", port |-> 0],
       [host |-> "ip", proto |-> "https", port |-> 0] >>,
    << [host |-> "dns", proto |-> "tcp", port |-> 0],
       [host |-> "both", proto |-> "http", port |-> 8080],
       [host |-> "dns", proto |-> "http", port |-> 0] >> }
MCMaxRuns == 3
MCRvOnlyFlags == BOOLEAN
MCNoRvOnly == {FALSE}
MCAllFaults == {"crash", "lostdone2", "createfail", "encodefail", "renamefail"}
====
