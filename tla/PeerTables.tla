----------------------------- MODULE PeerTables -----------------------------
(***************************************************************************)
(* The two tables a node may keep about its peers, and the clock they      *)
(* share.  They share nothing else, so that one of them is used per        *)
(* behaviour: their states do not multiply.                                *)
(***************************************************************************)
EXTENDS ProviderCache

CONSTANTS Rtts, max_age

ASSUME PingAssumption == max_age \in Nat

VARIABLES rtts, last_ping, recent

Pings == INSTANCE Ping

vars == <<now, providers, left, rtts, last_ping, recent>>

Init == CacheInit /\ Pings!PingInit

Tick ==
    /\ now < MaxTime /\ now' = now + 1
    /\ Table!Tick /\ Pings!Table!Tick
    /\ UNCHANGED <<providers, rtts, last_ping>>

UseCache == rtts = Pings!Nothing /\ CacheStep /\ UNCHANGED <<rtts, last_ping, recent>>
UsePings ==
    /\ providers = [l \in Layers |-> <<>>]
    /\ Pings!PingStep /\ UNCHANGED <<providers, left>>

Next == Tick \/ UseCache \/ UsePings
Spec == Init /\ [][Next]_vars

-----------------------------------------------------------------------------
\* See Ping: a measurement lives from its ping for max_age.
RttsAreRecent == Pings!RttsAreRecent
=============================================================================
