---------------------------- MODULE MCMediaServer ----------------------------
(***************************************************************************)
(* One printer and two media.  make_config lists both but gives a size to  *)
(* the first only; an earlier version listed one, without a size, or none. *)
(* The head reaches 30 mm: across one roll, and not across the other.      *)
(***************************************************************************)
EXTENDS MediaServer, MediaAttributes

CONSTANTS p1, a, b, default, min, max

MCFactory == p1 :> [names |-> <<a, b>>, sizes |-> <<a>>]

MCEarlier == {p1 :> [names |-> <<b>>, sizes |-> <<>>], p1 :> [names |-> <<>>, sizes |-> <<>>]}

MCWidth == a :> 5000 @@ b :> 2000 @@ default :> 4000 @@ min :> 1000 @@ max :> 6000

=============================================================================
