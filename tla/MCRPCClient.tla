---------------------------- MODULE MCRPCClient ----------------------------
EXTENDS RPCClient

CONSTANTS T1, T2

MCNetworks == {"main", "test"}
MCRPCPort == [main |-> "8332", test |-> "18332"]

(* Options before any section, for all networks and for one of them, and in  *)
(* the sections of two networks.                                             *)
Host(h, p) == [host |-> h, port |-> p]
General == << <<"option", <<"", "rpcuser">>, <<<<"", "rpcuser">>, "u">>>>,
              Option("", "rpcpassword", "p"),
              Option("", "rpcconnect", Host("h", "1")),
              Option("test", "rpcconnect", Host("hj", "junk")),
              Option("test", "rpcport", "2"),
              <<"other">>,
              Option("", "chain", "test") >>
Sections == << <<"section", "main">>,
               Option("", "rpcpassword", "pm"),
               Option("", "rpcport", "junk"),
               <<"section", "test">>,
               Option("", "rpcuser", "ut"),
               Option("", "rpcconnect", Host("ht", None)),
               Option("", "datadir", "dir") >>

Lines == {SelectSeq(General, LAMBDA l : l \in keep) \o s :
             keep \in SUBSET {General[i] : i \in DOMAIN General},
             s \in {SubSeq(Sections, 1, n) : n \in 0 .. Len(Sections)}}
Sources == [lines : Lines \ {<<>>}, terminated : BOOLEAN,
            kind : {"file", "missing", "contents"}]
MCArgs == [source : Sources, network : MCNetworks, port : {None, "3"},
           default : {TRUE}, cookies : {{}, {"dir", "confdir"}}]
          \cup [source : [lines : {General}, terminated : {TRUE},
                          kind : {"file", "missing"}],
                network : MCNetworks, port : {None}, default : {FALSE},
                cookies : {{"confdir"}}]
=============================================================================
