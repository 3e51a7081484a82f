------------------------------ MODULE Routing ------------------------------
(***************************************************************************)
(* The source route that a ForwardPassRequest carries: the chain of        *)
(* workers it visits, and the index of the hop it is addressed to.  Hop    *)
(* indices are zero based, as in the code; TLA+ sequences start at one.    *)
(***************************************************************************)
EXTENDS Naturals, Sequences

\* hop_index == route.len().saturating_sub(1)
IsTerminal(request) ==
    request.hop_index = IF request.route = <<>> THEN 0 ELSE Len(request.route) - 1

\* The peer that build_next_request addresses: route[hop_index + 1].
NextPeer(request) == request.route[request.hop_index + 2]

\* The request itself one hop further.  The tensor is copied, never computed
\* on: an intermediate worker only relays it.
BuildNextRequest(request) == [request EXCEPT !.hop_index = @ + 1]

=============================================================================
