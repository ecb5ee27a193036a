---------------------------- MODULE DeviceTracker ----------------------------
(***************************************************************************)
(* network/devices.py: the clients that have asked the DNS server.  The    *)
(* first query of a client holds the lock through a reverse lookup of its  *)
(* name; PacketMonitor says which steps that keeps waiting.  Time stamps,  *)
(* and with them the activity window and the order of listing, are left    *)
(* out, and so is the name found.                                          *)
(***************************************************************************)
EXTENDS Naturals

CONSTANT Clients    \* addresses that send queries

VARIABLE devices    \* _devices: the query counts of each known client

Loopback == {"127.0.0.1", "::1", "localhost"}

Ignored(client) == client = "" \/ client \in Loopback
IsKnown(client) == client \in DOMAIN devices

\* record_query for a client that is known: the lock is held for a moment.
CountQuery(client, isBlocked) ==
    devices' = [devices EXCEPT
        ![client].total = @ + 1,
        ![client].blocked = IF isBlocked THEN @ + 1 ELSE @]

\* record_query for a new client, once its name has been looked up.
AddDevice(client, isBlocked) ==
    devices' = [c \in DOMAIN devices \union {client} |->
        IF c = client THEN [total |-> 1, blocked |-> IF isBlocked THEN 1 ELSE 0]
                      ELSE devices[c]]

DeviceInit == devices = << >>
=============================================================================
