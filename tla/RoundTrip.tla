------------------------------ MODULE RoundTrip ------------------------------
(***************************************************************************)
(* What an echo connection promises its client (src/examples/echo): what   *)
(* it gets back is what it sent, or the connection ends.                   *)
(***************************************************************************)
CONSTANTS Clients, Messages
VARIABLES state, sent, got

vars == <<state, sent, got>>

Init == /\ state = [c \in Clients |-> "start"]
        /\ sent = [c \in Clients |-> <<>>]
        /\ got = [c \in Clients |-> <<>>]

Connect(c) == /\ state[c] = "start"
              /\ state' = [state EXCEPT ![c] = "idle"]
              /\ UNCHANGED <<sent, got>>

Ask(c) == /\ state[c] = "idle"
          /\ state' = [state EXCEPT ![c] = "asked"]
          /\ \E m \in Messages : sent' = [sent EXCEPT ![c] = m]
          /\ UNCHANGED got

Answer(c) == /\ state[c] = "asked"
             /\ state' = [state EXCEPT ![c] = "idle"]
             /\ got' = [got EXCEPT ![c] = sent[c]]
             /\ UNCHANGED sent

Lose(c) == /\ state[c] # "lost"
           /\ state' = [state EXCEPT ![c] = "lost"]
           /\ UNCHANGED <<sent, got>>

Next == \E c \in Clients : Connect(c) \/ Ask(c) \/ Answer(c) \/ Lose(c)

(* Neither connecting nor an exchange takes for ever. *)
Fairness == \A c \in Clients :
              /\ WF_vars(Connect(c) \/ (state[c] = "start" /\ Lose(c)))
              /\ WF_vars(Answer(c) \/ (state[c] = "asked" /\ Lose(c)))

SafeSpec == Init /\ [][Next]_vars
Spec     == SafeSpec /\ Fairness
=============================================================================
