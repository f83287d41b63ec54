----------------------------- MODULE Addresses -----------------------------
(***************************************************************************)
(* Which of its addresses a host announces (common/net_utils.cpp,          *)
(* get_primary_ipv4): the scan of the addresses of all adapters for the    *)
(* one with the highest score, the first of equals.                        *)
(*                                                                         *)
(* An address is told apart by its range, an adapter by what the scan asks *)
(* of it.  The list is the one that Windows gives, adapter by adapter.     *)
(***************************************************************************)
EXTENDS Naturals, Sequences

VARIABLES
    addresses,  \* the list, each address with its adapter
    place,      \* the place in it that is looked at next
    best        \* best_ip, as its place in the list; 0 is "Unknown"

scan == <<addresses, place, best>>

AddressRange == {"zero", "loopback", "linkLocal",  \* 0.0.0.0, 127., 169.254.
                 "hotspot", "home", "private",     \* 192.168.137., 192.168., 10. and 172.16/12
                 "public"}
IfType == {"loopback", "tunnel", "wifi", "ethernet", "other"}

\* `virtual`: the adapter's name says that it is one of a virtual machine, a VPN, ...
Candidate == [range : AddressRange, type : IfType, up : BOOLEAN, virtual : BOOLEAN]

Eligible(c) ==
    /\ c.up /\ c.type \notin {"loopback", "tunnel"}
    /\ c.range \notin {"zero", "loopback", "linkLocal"}

IsPrivate(c) == c.range \in {"hotspot", "home", "private"}

\* score_adapter_ip, 80 higher than in the code, which may go below zero.
Score(c) ==
    (IF IsPrivate(c) THEN 100 ELSE 0)
    + (IF c.range \in {"hotspot", "home"} THEN 40 ELSE 0)
    + (IF c.range = "hotspot" THEN 50 ELSE 0)
    + (IF c.virtual THEN 0 ELSE 130)
    + (IF c.type = "wifi" THEN 40 ELSE IF c.type = "ethernet" THEN 30 ELSE 0)

Better(i) == best = 0 \/ Score(addresses[i]) > Score(addresses[best])

ScanInit == addresses \in Seq(Candidate) /\ place = 1 /\ best = 0

Look ==
    /\ place <= Len(addresses)
    /\ best' = IF Eligible(addresses[place]) /\ Better(place) THEN place ELSE best
    /\ place' = place + 1
    /\ UNCHANGED addresses

ScanSpec == ScanInit /\ [][Look]_scan

------------------------------------------------------------------------------
\* An address of a local network on a wired or wireless adapter that is up.
OnTheLan(c) == Eligible(c) /\ ~c.virtual /\ IsPrivate(c) /\ c.type \in {"wifi", "ethernet"}

\* A host that has an address on a local network never announces one of a virtual adapter,
\* which its viewers could not reach, whatever the order of the adapters
\* (net_utils.cpp:136-171, 213-265).
AnnouncesTheLan ==
    place > Len(addresses) /\ (\E i \in 1 .. Len(addresses) : OnTheLan(addresses[i]))
        => best # 0 /\ ~addresses[best].virtual /\ Eligible(addresses[best])

=============================================================================
