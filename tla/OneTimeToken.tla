----------------------------- MODULE OneTimeToken -----------------------------
(***************************************************************************)
(* What a durable store of preprocessed tokens promises its callers,       *)
(* whatever fails underneath: each token is handed to at most one          *)
(* reservation, no invocation id is used for two tokens, and a token that  *)
(* was handed out ends spent or burned and stays so.  TokenStore is shown  *)
(* to implement this specification.                                        *)
(***************************************************************************)
CONSTANTS Tokens, Bindings, NoBinding

VARIABLES
  status,  \* what callers may rely on about each token
  holder   \* the reservation each token was handed to

promise == <<status, holder>>

Init ==
  /\ status = [t \in Tokens |-> "unused"]
  /\ holder = [t \in Tokens |-> NoBinding]

\* The token is handed to the caller that reserved it with b.
Grant(t, b) ==
  /\ status[t] = "unused"
  /\ \A u \in Tokens : holder[u] # NoBinding => holder[u].iid # b.iid
  /\ status' = [status EXCEPT ![t] = "granted"]
  /\ holder' = [holder EXCEPT ![t] = b]

\* Some of the tokens that were handed out get their final state; recovery
\* and a loss of power may decide several at once.
Settle ==
  /\ status' \in [Tokens -> {"unused", "granted", "spent", "burned"}]
  /\ \A t \in Tokens :
       status'[t] # status[t] => status[t] = "granted" /\ status'[t] \in {"spent", "burned"}
  /\ UNCHANGED holder

Next ==
  \/ \E t \in Tokens, b \in Bindings : Grant(t, b)
  \/ Settle

Spec == Init /\ [][Next]_promise

===============================================================================
