------------------------------ MODULE BotLease ------------------------------
(***************************************************************************)
(* What the sidecar promises about the warm bots themselves (src/README.md *)
(* :5, "assigns an idle warm bot"): a bot is lent to one deployment at a   *)
(* time, it is lent out empty and handed back empty, and in between it     *)
(* runs nothing but the strategy of the deployment that holds it.          *)
(***************************************************************************)
CONSTANTS Bots, Deploys, NoDeploy

VARIABLES
  holder,    \* the deployment a bot is lent to
  strategy   \* the deployment whose strategy the bot runs

vars == <<holder, strategy>>

Init ==
  /\ holder = [b \in Bots |-> NoDeploy]
  /\ strategy = [b \in Bots |-> NoDeploy]

Empty(b) == strategy[b] = NoDeploy

Take(b, t) ==
  /\ holder[b] = NoDeploy /\ Empty(b)
  /\ t \notin {holder[c] : c \in Bots}
  /\ holder' = [holder EXCEPT ![b] = t]
  /\ UNCHANGED strategy

Begin(b) ==
  /\ holder[b] # NoDeploy
  /\ strategy' = [strategy EXCEPT ![b] = holder[b]]
  /\ UNCHANGED holder

End(b) ==
  /\ strategy' = [strategy EXCEPT ![b] = NoDeploy]
  /\ UNCHANGED holder

Give(b) ==
  /\ Empty(b)
  /\ holder' = [holder EXCEPT ![b] = NoDeploy]
  /\ UNCHANGED strategy

Next ==
  \E b \in Bots :
    \/ \E t \in Deploys : Take(b, t)
    \/ Begin(b) \/ End(b) \/ Give(b)

Spec == Init /\ [][Next]_vars
=============================================================================
