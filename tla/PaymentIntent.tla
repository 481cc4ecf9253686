---------------------------- MODULE PaymentIntent ----------------------------
(***************************************************************************)
(* What a user is promised about the intentions to buy a plan: of each     *)
(* billing interval one is open at a time, an open one is either paid or   *)
(* closed, only a paid one is reversed, and the effects written for it are *)
(* exactly those of what became of it.                                     *)
(***************************************************************************)
CONSTANTS
  Keys,
  Interval,   \* per intention, the billing interval it is for
  Reversals

VARIABLES
  status,   \* absent, open, closed, paid, partly (refunded in part), reversed
  effects   \* ledger and entitlement effects written for the intention

ivars == <<status, effects>>

Init ==
  /\ status = [k \in Keys |-> "absent"]
  /\ effects = [k \in Keys |-> {}]

Open(k) ==
  /\ status[k] = "absent"
  /\ \A j \in Keys : Interval[j] = Interval[k] => status[j] # "open"
  /\ status' = [status EXCEPT ![k] = "open"]
  /\ UNCHANGED effects

Close(k) ==
  /\ status[k] = "open"
  /\ status' = [status EXCEPT ![k] = "closed"]
  /\ UNCHANGED effects

Pay(k) ==
  /\ status[k] = "open"
  /\ status' = [status EXCEPT ![k] = "paid"]
  /\ effects' = [effects EXCEPT ![k] = {"payment_success"}]

Reverse(k, kind) ==
  /\ status[k] = "paid" \/ (status[k] = "partly" /\ kind # "partial_refund")
  /\ status' = [status EXCEPT ![k] =
                  IF kind = "partial_refund" THEN "partly" ELSE "reversed"]
  /\ effects' = [effects EXCEPT ![k] = @ \cup {kind}]

Next == \E k \in Keys :
  \/ Open(k) \/ Close(k) \/ Pay(k)
  \/ \E kind \in Reversals : Reverse(k, kind)

Spec == Init /\ [][Next]_ivars
=============================================================================
