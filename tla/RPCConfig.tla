----------------------------- MODULE RPCConfig -----------------------------
(* How RPCCaller (rpc.py) finds the node to talk to, and the credentials,    *)
(* from a configuration file or its contents.                                *)
(*                                                                           *)
(* A line is ["section", name], ["option", key, value] or ["other"], as a    *)
(* tuple.  An option outside any section may itself be named after one       *)
(* ("regtest.rpcport"): a key is <<section, name>>, <<"", name>> if general. *)
(* A value is <<key, data>>, so that a result tells where it came from; a    *)
(* default of the chain parameters has their network for its section.        *)
EXTENDS Integers, Sequences

CONSTANTS
    Networks,    \* network ids, the names of sections
    RPCPort,     \* [Networks -> port], the RPC_PORT of the chain parameters
    None

Option(section, name, data) ==
    <<"option", <<section, name>>, <<<<section, name>>, data>>>>

-----------------------------------------------------------------------------
(* _try_read_conf_file.  The state is the section lines are read in and the  *)
(* options read so far.                                                      *)
ProcessLine(read, line) ==
    CASE line[1] = "section" -> [read EXCEPT !.section = line[2]]
      [] line[1] = "option" ->
            LET key == IF read.section = "" THEN line[2]
                       ELSE IF line[2][1] = "" THEN <<read.section, line[2][2]>>
                            ELSE <<read.section, line[2]>>
            IN [read EXCEPT !.conf = [k \in DOMAIN @ \cup {key} |->
                    IF k = key THEN <<key, line[3][2]>> ELSE @[k]]]
      [] OTHER -> read

EmptyConf == [k \in {<<"", "rpcuser">>} |-> <<k, "">>]

(* A source is [lines, terminated, kind]; kind is "file", "missing" (the     *)
(* file is not there) or "contents".  Contents lose a last line that does    *)
(* not end in a line feed.                                                   *)
LinesRead(source) ==
    IF source.kind = "missing" THEN <<>>
    ELSE IF source.kind = "contents" /\ ~source.terminated
         THEN SubSeq(source.lines, 1, Len(source.lines) - 1)
         ELSE source.lines

(* The state after each of the lines.                                        *)
ReadAfter(lines) ==
    LET read[n \in 0 .. Len(lines)] ==
            IF n = 0 THEN [section |-> "", conf |-> EmptyConf]
            ELSE ProcessLine(read[n - 1], lines[n])
    IN read

Conf(source) ==
    LET lines == LinesRead(source) IN ReadAfter(lines)[Len(lines)].conf

-----------------------------------------------------------------------------
(* What RPCCaller.__init__ makes of it.  An argument is [source, network,    *)
(* port, default, cookies]: the source, the network of the chain parameters  *)
(* in effect, service_port or None, allow_default_conf, and the directories  *)
(* that hold a cookie file for that network.                                 *)

NetworkId(arg) ==
    LET conf == Conf(arg.source)
    IN IF <<"", "chain">> \in DOMAIN conf THEN conf[<<"", "chain">>][2]
       ELSE arg.network

(* The value of an option: of the network's section, the general one, or not *)
(* given.                                                                    *)
Lookup(arg, name) ==
    LET conf == Conf(arg.source)
        own == <<NetworkId(arg), name>>
    IN IF own \in DOMAIN conf THEN conf[own]
       ELSE IF <<"", name>> \in DOMAIN conf THEN conf[<<"", name>>]
       ELSE None

(* split_hostport: data of an rpcconnect value is [host, port], port None if *)
(* there is no colon (outside of brackets) and "junk" if what follows is no  *)
(* port, which then stays with the host.                                     *)
SplitHostport(value) ==
    IF value = None THEN [host |-> "localhost", port |-> None]
    ELSE IF value[2].port = "junk" THEN [host |-> value[2], port |-> None]
    ELSE value[2]

Port(arg) ==
    LET given == Lookup(arg, "rpcport")
        connect == Lookup(arg, "rpcconnect")
        split == SplitHostport(connect).port
    IN IF given # None THEN given
       ELSE IF split # None THEN <<connect[1], split>>
       ELSE IF arg.port # None THEN <<<<"", "service_port">>, arg.port>>
       ELSE <<<<arg.network, "RPC_PORT">>, RPCPort[arg.network]>>

CookieDir(arg) ==
    LET datadir == Lookup(arg, "datadir")
    IN IF datadir # None THEN datadir
       ELSE IF arg.source.kind = "contents" THEN None
       ELSE <<<<"", "conf_file">>, "confdir">>

(* The cookie is in the subdirectory (get_datadir_extra_name) of the current *)
(* parameters' network, whichever network the directory was looked up for:   *)
(* it is <<key, directory, network>>.                                        *)
Cookie(arg) ==
    LET dir == CookieDir(arg)
    IN IF dir # None /\ dir[2] \in arg.cookies
       THEN <<dir[1], dir[2], arg.network>> ELSE None

(* The user is looked for where the password was found, and nowhere else.    *)
\* Mutant of Password: each is looked for on its own.
PasswordApart(arg) ==
    LET user == Lookup(arg, "rpcuser")
        password == Lookup(arg, "rpcpassword")
    IN IF password = None THEN None ELSE <<user, password>>
Password(arg) ==
    LET conf == Conf(arg.source)
        pair(section) == << IF <<section, "rpcuser">> \in DOMAIN conf
                            THEN conf[<<section, "rpcuser">>]
                            ELSE <<<<section, "rpcuser">>, "">>,
                            conf[<<section, "rpcpassword">>] >>
    IN IF <<NetworkId(arg), "rpcpassword">> \in DOMAIN conf
       THEN pair(NetworkId(arg))
       ELSE IF <<"", "rpcpassword">> \in DOMAIN conf THEN pair("") ELSE None

Auth(arg) == IF Cookie(arg) # None THEN <<Cookie(arg)>> ELSE Password(arg)

(* Where __init__ does not raise: int() of a port and the port of the URL    *)
(* that is made of host and port do.                                         *)
Constructible(arg) ==
    LET connect == Lookup(arg, "rpcconnect")
    IN /\ arg.source.kind = "missing" => arg.default
       /\ Port(arg)[2] # "junk"
       /\ connect # None => connect[2].port # "junk"
       /\ Auth(arg) # None

Service(arg) ==
    [network |-> NetworkId(arg), params |-> arg.network,
     host |-> Lookup(arg, "rpcconnect"),
     port |-> Port(arg), auth |-> Auth(arg)]
=============================================================================
