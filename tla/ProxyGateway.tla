---------------------------- MODULE ProxyGateway ----------------------------
(***************************************************************************)
(* The vmess and vless proxies of the pool are served by a sing-box        *)
(* process on each host, which is restarted from a configuration file      *)
(* whenever a process of that host synchronises with the table: the API    *)
(* after an admin's change or at its start, Beat at its start.  Processes  *)
(* of one host share the file, and each kills the others' sing-box.        *)
(***************************************************************************)
EXTENDS Integers, FiniteSets

CONSTANTS
    Nodes,          \* identities of gateway rows
    Links,          \* the share links that admins enter
    Hosts,
    Syncs,          \* synchronisations that run at the same time
    HostOf,         \* HostOf[y] = the host of the process that runs y
    MaxChanges      \* bound on the admins' changes and on restarts

ASSUME GatewayAssumption ==
    /\ HostOf \in [Syncs -> Hosts]
    /\ MaxChanges \in Nat

VARIABLES
    table,      \* table[n] = the link of row n
    marked,     \* rows shown as unhealthy with the gateway's error
    file,       \* file[h] = the links of the configuration file of host h
    served,     \* served[h] = the links that sing-box of host h serves
    syncing,    \* syncing[y] = how far y has got, with the rows it read
    changes     \* changes and restarts so far

gatewayVars == <<table, marked, file, served, syncing, changes>>

-----------------------------------------------------------------------------
(* Links.  A link is what the parsers look at: whether it decodes into a   *)
(* host and a port, carries an id, and which transport and security it     *)
(* asks for.                                                               *)

Schemes == {"vmess", "vless"}
Transports == {"tcp", "ws", "grpc", "http", "other"}
AllLinks == [scheme : Schemes, decodes : BOOLEAN, uuid : BOOLEAN, net : Transports,
             security : {"none", "tls", "reality"}, pbk : BOOLEAN]

\* parse_vmess does not look for the id; parse_vless does.
Parses(link) == link.decodes /\ (link.scheme = "vless" => link.uuid)

\* What becomes of a link in the configuration; a link that does not convert
\* raises, for every row of the file.
TransportKnown(link) == link.net # "other"
Converts(link) ==
    /\ TransportKnown(link)
    /\ IF link.scheme = "vmess" THEN link.decodes /\ link.uuid
       ELSE link.security = "reality" => link.pbk

\* sing-box refuses a configuration with an outbound that names no server or
\* no id (external).
Starts(links) == \A link \in links : link.decodes /\ link.uuid

-----------------------------------------------------------------------------

NoLink == [scheme |-> "none"]
Rows(t) == {t[n] : n \in {m \in Nodes : t[m] # NoLink}}
Stopped == {NoLink}
Quiet == [stage |-> "idle"]
SyncStages == {"committed", "read", "written", "killed"}

GatewayTypeOK ==
    /\ table \in [Nodes -> Links \cup {NoLink}]
    /\ marked \in SUBSET Nodes
    /\ file \in [Hosts -> SUBSET Links]
    /\ served \in [Hosts -> (SUBSET Links) \cup {Stopped}]
    /\ syncing \in [Syncs -> {Quiet} \cup
          [stage : SyncStages, node : Nodes \cup {"all"}, rows : SUBSET Links]]
    /\ changes \in 0 .. MaxChanges

GatewayInit ==
    /\ table = [n \in Nodes |-> NoLink]
    /\ marked = {}
    /\ file = [h \in Hosts |-> {}]
    /\ served = [h \in Hosts |-> Stopped]
    /\ syncing = [y \in Syncs |-> Quiet]
    /\ changes = 0

\* An admin's change is committed before the gateway is touched.  A link comes
\* through the form, which parses it, or raw, which nothing parses.
ChangeRow(y, n, link, raw) ==
    /\ changes < MaxChanges
    /\ syncing[y] = Quiet
    /\ link # table[n]
    /\ link # NoLink => raw \/ Parses(link)
    /\ table' = [table EXCEPT ![n] = link]
    /\ marked' = IF link = NoLink THEN marked \ {n} ELSE marked
    /\ syncing' = [syncing EXCEPT ![y] =
                     [stage |-> "committed", rows |-> {},
                      node |-> IF link = NoLink THEN "all" ELSE n]]
    /\ changes' = changes + 1
    /\ UNCHANGED <<file, served>>

\* The reload button, and the start of the API or of Beat.
Reload(y) ==
    /\ changes < MaxChanges
    /\ syncing[y] = Quiet
    /\ syncing' = [syncing EXCEPT ![y] = [stage |-> "committed", node |-> "all", rows |-> {}]]
    /\ changes' = changes + 1
    /\ UNCHANGED <<table, marked, file, served>>

SyncReads(y) ==
    /\ syncing[y].stage = "committed"
    /\ syncing' = [syncing EXCEPT ![y].stage = "read", ![y].rows = Rows(table)]
    /\ UNCHANGED <<table, marked, file, served, changes>>

\* A row that does not convert ends the synchronisation with an error that
\* sync_from_db does not catch: the gateway stays as it was.
SyncRaises(y) ==
    /\ syncing[y].stage = "read"
    /\ \E link \in syncing[y].rows : ~Converts(link)
    /\ syncing' = [syncing EXCEPT ![y] = Quiet]
    /\ UNCHANGED <<table, marked, file, served, changes>>

\* A synchronisation that fails marks the row it was made for.
SyncFails(y) ==
    /\ syncing' = [syncing EXCEPT ![y] = Quiet]
    /\ marked' = IF syncing[y].node \in Nodes /\ table[syncing[y].node] # NoLink
                 THEN marked \cup {syncing[y].node} ELSE marked

\* No sing-box binary.
SyncFindsNoBinary(y) ==
    /\ syncing[y].stage = "read"
    /\ syncing[y].rows # {}
    /\ \A link \in syncing[y].rows : Converts(link)
    /\ SyncFails(y)
    /\ UNCHANGED <<table, file, served, changes>>

\* With nothing to serve, sing-box is stopped and the file is left.
SyncStops(y) ==
    /\ syncing[y].stage = "read"
    /\ syncing[y].rows = {}
    /\ served' = [served EXCEPT ![HostOf[y]] = Stopped]
    /\ syncing' = [syncing EXCEPT ![y] = Quiet]
    /\ UNCHANGED <<table, marked, file, changes>>

SyncWrites(y) ==
    /\ syncing[y].stage = "read"
    /\ syncing[y].rows # {}
    /\ \A link \in syncing[y].rows : Converts(link)
    /\ file' = [file EXCEPT ![HostOf[y]] = syncing[y].rows]
    /\ syncing' = [syncing EXCEPT ![y].stage = "written"]
    /\ UNCHANGED <<table, marked, served, changes>>

\* (A bug would be to kill only a child of one's own, which is none after a
\* restart.)
SyncKillsChild(y) ==
    /\ syncing[y].stage = "written"
    /\ syncing' = [syncing EXCEPT ![y].stage = "killed"]
    /\ UNCHANGED <<table, marked, file, served, changes>>

\* stop_singbox kills its child and every other sing-box of the host.
SyncKills(y) ==
    /\ syncing[y].stage = "written"
    /\ served' = [served EXCEPT ![HostOf[y]] = Stopped]
    /\ syncing' = [syncing EXCEPT ![y].stage = "killed"]
    /\ UNCHANGED <<table, marked, file, changes>>

\* The new sing-box reads the file; it exits at once when it refuses it, and
\* when another one holds the ports.
SyncStarts(y) ==
    /\ syncing[y].stage = "killed"
    /\ LET h == HostOf[y]
       IN  IF served[h] = Stopped /\ Starts(file[h])
           THEN /\ served' = [served EXCEPT ![h] = file[h]]
                /\ syncing' = [syncing EXCEPT ![y] = Quiet]
                /\ UNCHANGED marked
           ELSE SyncFails(y) /\ UNCHANGED served
    /\ UNCHANGED <<table, file, changes>>

\* The API or Beat of the host ends and stops sing-box, or sing-box dies.
GatewayStops(h) ==
    /\ served[h] # Stopped
    /\ served' = [served EXCEPT ![h] = Stopped]
    /\ UNCHANGED <<table, marked, file, syncing, changes>>

GatewayNext ==
    \/ \E y \in Syncs, n \in Nodes, link \in Links \cup {NoLink}, raw \in BOOLEAN :
          ChangeRow(y, n, link, raw)
    \/ \E y \in Syncs :
          \/ Reload(y) \/ SyncReads(y) \/ SyncRaises(y) \/ SyncFindsNoBinary(y)
          \/ SyncStops(y) \/ SyncWrites(y) \/ SyncKills(y) \/ SyncStarts(y)
    \/ \E h \in Hosts : GatewayStops(h)

GatewaySpec == GatewayInit /\ [][GatewayNext]_gatewayVars

-----------------------------------------------------------------------------
(* Properties.                                                             *)

\* Two processes of a host may restart its sing-box at the same time: once
\* both are through, what it serves, if anything, is the file as it stands
\* (start_singbox and stop_singbox).
ServedIsFile ==
    \A h \in Hosts :
        (\A y \in Syncs : HostOf[y] = h => syncing[y].stage \notin {"written", "killed"})
            => served[h] \in {Stopped, file[h]}
=============================================================================
