--------------------------- MODULE MCMininetTests ---------------------------
(* Command lines and networks for TLC. *)
EXTENDS MininetTests, TLC

\* Networks with no gateway, one and several; with fewer background hosts than
\* a profile has flows, with more, and with more than there are octets.
Simple == [model |-> "simple", gateways |-> 3, background |-> 16, level |-> "medium"]
NoGateway == [model |-> "multi-tier", gateways |-> 0, background |-> 16, level |-> "medium"]
OneGateway == [model |-> "multi-tier", gateways |-> 1, background |-> 3, level |-> "burst"]
Tiers == [model |-> "multi-tier", gateways |-> 4, background |-> 16, level |-> "heavy"]
Crowded == [model |-> "multi-tier", gateways |-> 3, background |-> 200, level |-> "light"]

SomeNetworks == {Simple, NoGateway, OneGateway, Tiers, Crowded}

CommandLine(network, protocols, tests, repeat) ==
    [network |-> network, protocols |-> protocols, tests |-> tests, repeat |-> repeat]

\* Each test alone and all in a row, one protocol and all of them, with and
\* without --repeat.
SomeOptions ==
    {CommandLine(Simple, <<"zkarche">>, {"2"}, TRUE),
     CommandLine(NoGateway, <<"mtls">>, {"1"}, FALSE),
     CommandLine(Tiers, <<"zkarche", "mtls", "edhoc">>, {"1"}, FALSE),
     CommandLine(OneGateway, <<"zkarche">>, {"2"}, FALSE),
     CommandLine(Crowded, <<"edhoc">>, Test, TRUE)}

\* One run with everything in time, for mininet_server_setup.
OneOption == {CommandLine(Simple, <<"zkarche">>, {"1"}, TRUE)}
OneNetwork == {Simple}
=============================================================================
