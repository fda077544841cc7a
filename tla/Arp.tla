-------------------------------- MODULE Arp --------------------------------
(***************************************************************************)
(* etharp.c: the table that maps the hosts of the network to Ethernet      *)
(* addresses, and keeps one packet for each host that was asked for its    *)
(* address and has not answered.                                           *)
(*                                                                         *)
(* One interface, which has an address.  A packet is the host it goes to;  *)
(* ARP packets come at any time, from any host, with any address.          *)
(***************************************************************************)
EXTENDS Integers, FiniteSets, FiniteSetsExt

CONSTANTS
    Size,           \* ARP_TABLE_SIZE
    Hosts,          \* IP addresses on the network
    Macs,           \* Ethernet addresses
    Gateway,        \* the host that forwards what goes elsewhere, or Nobody
    Nobody,         \* no host, no packet, no address
    MaxAge,         \* ARP_MAXAGE
    MaxPending,     \* ARP_MAXPENDING
    Unicast, Broadcast  \* ARP_AGE_REREQUEST_USED_UNICAST and _BROADCAST

ArpAssumption ==
    /\ Size \in Nat \ {0} /\ MaxAge \in Nat \ {0} /\ MaxPending \in Nat \ {0}
    /\ Nobody \notin Hosts /\ Gateway \in Hosts \union {Nobody}

VARIABLES
    arp_table,
    etharp_cached_entry,
    sent,           \* the frames the last call has given to ethernet_output
    heard           \* history: the address last heard of each host that has an entry

vars == <<arp_table, etharp_cached_entry, sent, heard>>

Indices == 1 .. Size

Everybody == "broadcast"

\* etharp_free_entry, which drops the packet; LWIP_DEBUG is defined, so all is cleared.
Empty == [state |-> "empty", ip |-> Nobody, mac |-> Nobody, q |-> Nobody, ctime |-> 0]

Init ==
    /\ arp_table = [i \in Indices |-> Empty]
    /\ etharp_cached_entry = 1
    /\ sent = {} /\ heard = [h \in Hosts |-> Nobody]

Stable(e) == e.state \in {"stable", "rerequesting 1", "rerequesting 2"}

IP(host, mac)         == [kind |-> "ip", host |-> host, mac |-> mac]
etharp_request(host)  == [kind |-> "request", host |-> host, mac |-> Everybody]
etharp_request_dst(e) == [kind |-> "request", host |-> e.ip, mac |-> e.mac]

(* ---- etharp_find_entry ---- *)

Entries(Test(_)) == {i \in Indices : Test(arp_table[i])}

Matching(host) == Entries(LAMBDA e : e.state # "empty" /\ e.ip = host)

\* Of entries of the same age the last one.
Oldest(S) ==
    CHOOSE i \in S : \A j \in S :
        \/ arp_table[j].ctime < arp_table[i].ctime
        \/ arp_table[j].ctime = arp_table[i].ctime /\ j <= i

\* The first empty entry, or the one whose loss does the least harm.
Recycled ==
    LET empty  == Entries(LAMBDA e : e.state = "empty")
        stable == Entries(Stable)
        idle   == Entries(LAMBDA e : e.state = "pending" /\ e.q = Nobody)
    IN  IF empty # {} THEN Min(empty)
        ELSE IF stable # {} THEN Oldest(stable)
        ELSE IF idle # {} THEN Oldest(idle)
        ELSE Oldest(Indices)

\* The entries of the host that there can be: with ETHARP_FLAG_FIND_ONLY at most one
\* that is there, else exactly one.
Found(host, findOnly) ==
    IF Matching(host) # {} THEN {Min(Matching(host))}
    ELSE IF findOnly THEN {}
    ELSE {Recycled}

Entry_NotFreed(i, host) ==
    IF i \in Matching(host) THEN arp_table[i]
    ELSE [arp_table[i] EXCEPT !.state = "empty", !.ip = host, !.ctime = 0]

\* A recycled entry is freed before it gets its new host.
Entry(i, host) ==
    IF i \in Matching(host) THEN arp_table[i] ELSE [Empty EXCEPT !.ip = host]

\* What becomes of the table, and of the history.
Becomes(table, told) ==
    /\ arp_table' = table
    /\ heard' = [h \in Hosts |->
         IF \E i \in Indices : table[i].ip = h THEN told[h] ELSE Nobody]

(* ---- output ---- *)

\* The age at which a used entry is asked for again: its host, then everybody.  It is
\* not asked for if there is no memory.
Rerequest(e) ==
    IF e.state # "stable" \/ e.ctime < Unicast THEN {}
    ELSE IF e.ctime < Broadcast THEN {etharp_request_dst(e)}
    ELSE {etharp_request(e.ip)}

etharp_output_to_arp_index(i) ==
    LET e == arp_table[i]
    IN  \E requests \in {{}, Rerequest(e)} :
          /\ sent' = {IP(e.ip, e.mac)} \union requests
          /\ Becomes([arp_table EXCEPT ![i].state =
                        IF requests = {} THEN @ ELSE "rerequesting 1"], heard)

\* No entry of the host is stable.  Without memory no request is sent, or the packet is
\* not queued; one that waited already is dropped for the new one.
etharp_query(host) ==
    \E i \in Found(host, FALSE), queue, ask \in BOOLEAN :
      LET e == Entry(i, host)
      IN  /\ sent' = IF e.state = "empty" /\ ask THEN {etharp_request(host)} ELSE {}
          /\ Becomes([arp_table EXCEPT ![i] =
                        [e EXCEPT !.state = "pending", !.q = IF queue THEN host ELSE @]],
                     heard)
          /\ UNCHANGED etharp_cached_entry

\* The entry used last time, if it is the host's, or any other.
OutputTo(host) ==
    LET mine   == {i \in Matching(host) : Stable(arp_table[i])}
        cached == etharp_cached_entry
    IN  \/ /\ cached \in mine
           /\ etharp_output_to_arp_index(cached)
           /\ UNCHANGED etharp_cached_entry
        \/ /\ cached \notin mine /\ mine # {}
           /\ etharp_output_to_arp_index(Min(mine))
           /\ etharp_cached_entry' = Min(mine)
        \/ mine = {} /\ etharp_query(host)

\* To a host of the network, through the gateway, or to everybody.
etharp_output ==
    \/ \E host \in Hosts : OutputTo(host)
    \/ Gateway # Nobody /\ OutputTo(Gateway)
    \/ /\ sent' = {IP(Everybody, Everybody)}
       /\ UNCHANGED <<arp_table, etharp_cached_entry, heard>>

(* ---- input ---- *)

\* The entry is made if the ARP packet is for us, and found if not; what waits is sent.
etharp_update_arp_entry(host, mac, forUs) ==
    IF Found(host, ~forUs) = {}
      THEN sent' = {} /\ UNCHANGED <<arp_table, heard>>
      ELSE \E i \in Found(host, ~forUs) :
             LET e == Entry(i, host)
             IN  /\ sent' = IF e.q = Nobody THEN {} ELSE {IP(e.q, mac)}
                 /\ Becomes([arp_table EXCEPT ![i] =
                               [e EXCEPT !.state = "stable", !.mac = mac, !.ctime = 0,
                                         !.q = Nobody]],
                            [heard EXCEPT ![host] = mac])

\* The answer to a request for us, which goes back to whoever asked, changes nothing
\* here and is left out.
etharp_input ==
    /\ \E host \in Hosts, mac \in Macs, forUs \in BOOLEAN :
         etharp_update_arp_entry(host, mac, forUs)
    /\ UNCHANGED etharp_cached_entry

(* ---- the timer, and the interface going down ---- *)

Old(e) == e.ctime >= MaxAge \/ (e.state = "pending" /\ e.ctime >= MaxPending)

Aged(e) ==
    LET older == [e EXCEPT !.ctime = @ + 1]
    IN  CASE e.state = "empty" -> e
          [] e.state # "empty" /\ Old(older) -> Empty
          [] e.state = "rerequesting 1" /\ ~Old(older) ->
               [older EXCEPT !.state = "rerequesting 2"]
          [] e.state = "rerequesting 2" /\ ~Old(older) -> [older EXCEPT !.state = "stable"]
          [] OTHER -> older

etharp_tmr ==
    LET table == [i \in Indices |-> Aged(arp_table[i])]
    IN  \E asked \in SUBSET {i \in Indices : table[i].state = "pending"} :
          /\ sent' = {etharp_request(table[i].ip) : i \in asked}
          /\ Becomes(table, heard)
          /\ UNCHANGED etharp_cached_entry

etharp_cleanup_netif ==
    /\ sent' = {}
    /\ Becomes([i \in Indices |-> Empty], heard)
    /\ UNCHANGED etharp_cached_entry

Next == etharp_output \/ etharp_input \/ etharp_tmr \/ etharp_cleanup_netif

Spec == Init /\ [][Next]_vars

(* ---- properties ---- *)

\* Type invariant.
TypeOK ==
    /\ arp_table \in [Indices ->
         [state : {"empty", "pending", "stable", "rerequesting 1", "rerequesting 2"},
          ip : Hosts \union {Nobody}, mac : Macs \union {Nobody},
          q : Hosts \union {Nobody}, ctime : 0 .. MaxAge - 1]]
    /\ etharp_cached_entry \in Indices
    /\ sent \subseteq [kind : {"ip", "request"}, host : Hosts \union {Everybody},
                       mac : Macs \union {Everybody}]
    /\ heard \in [Hosts -> Macs \union {Nobody}]

\* A packet goes to the address last heard of its host, at once or after it waited, also
\* when entries are recycled meanwhile and the cached index is stale; a host has one
\* entry, and a packet waits only where an answer is awaited, not longer than
\* ARP_MAXPENDING.
RightAddress ==
    /\ \A f \in sent : f.mac = Everybody \/ f.mac = heard[f.host]
    /\ \A i \in Indices :
         LET e == arp_table[i]
         IN  /\ Stable(e) => e.mac = heard[e.ip] /\ e.q = Nobody
             /\ e.state = "pending" => e.q \in {Nobody, e.ip} /\ e.ctime < MaxPending
             /\ e.state = "empty" => e.q = Nobody
    /\ \A i, j \in Indices :
         i # j /\ arp_table[i].state # "empty" => arp_table[i].ip # arp_table[j].ip

=============================================================================
