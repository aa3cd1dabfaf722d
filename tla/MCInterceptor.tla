--------------------------- MODULE MCInterceptor ---------------------------
(* Four tools stand for the kinds the code tells apart: inbox is read-only *)
(* and in the baseline; reply_email is irreversible of low value,         *)
(* outbound, in the baseline; pay is irreversible of high value, outbound, *)
(* outside it; ghost was never registered.                                 *)
EXTENDS Interceptor, TLC

CONSTANTS inbox, reply_email, pay, ghost

TierOfTool ==
  inbox :> "read_only" @@ reply_email :> "irreversible_low_value"
    @@ pay :> "irreversible_high_value"
Externals == {{}, {"content"}}
Symmetry == Permutations(Threads) \cup Permutations(Params) \cup Permutations(Requests)
============================================================================
