---------------------------- MODULE SwapPermits -----------------------------
(***************************************************************************)
(* What the authorization path promises, without registries, hashes, ages  *)
(* or caches.  A permit to swap a ticket is an object that is somewhere:   *)
(* on an operator's desk, in the registry, or with a caller.  A permit is  *)
(* created only while trading is not halted, is moved and never copied, is *)
(* lost freely, and is given up when the swap is signed.  A ticket that    *)
(* needs a human reaches the registry only from a desk.                    *)
(***************************************************************************)
CONSTANTS Callers, Desks, Proposals, HumanOnly

Registry == "registry"
Holders == Callers \cup Desks \cup {Registry}

VARIABLES
    permits,   \* <<holder, ticket>>
    signing,   \* <<caller, ticket>>: swaps handed to the signer
    halted

vars == <<permits, signing, halted>>

Init == permits = {} /\ signing = {} /\ halted = FALSE

(* The caps greenlight a ticket: its permit goes straight to the caller, or *)
(* into the registry, or, when a human must look at it, onto a desk.        *)
Grant(h, t) ==
    /\ ~halted
    /\ t \in HumanOnly => h \in Desks
    /\ permits' \subseteq permits \cup {<<h, t>>}
    /\ UNCHANGED <<signing, halted>>

(* The operator approves; a caller claims a registered permit. *)
Move(g, h, t) ==
    /\ <<g, t>> \in permits
    /\ \/ g \in Desks /\ h = Registry
       \/ g = Registry /\ h \in Callers
    /\ permits' \subseteq (permits \ {<<g, t>>}) \cup {<<h, t>>}
    /\ UNCHANGED <<signing, halted>>

(* Denied, expired, superseded, or refused on the way to the signer. *)
Lose ==
    /\ permits' \subseteq permits
    /\ UNCHANGED <<signing, halted>>

Sign(c, t) ==
    /\ <<c, t>> \in permits
    /\ permits' = permits \ {<<c, t>>}
    /\ signing' = signing \cup {<<c, t>>}
    /\ UNCHANGED halted

Settle(c, t) ==
    /\ signing' = signing \ {<<c, t>>}
    /\ UNCHANGED <<permits, halted>>

Brake ==
    /\ halted' \in BOOLEAN
    /\ UNCHANGED <<permits, signing>>

Next ==
    \/ \E h \in Holders, t \in Proposals : Grant(h, t)
    \/ \E g, h \in Holders, t \in Proposals : Move(g, h, t)
    \/ Lose
    \/ \E c \in Callers, t \in Proposals : Sign(c, t) \/ Settle(c, t)
    \/ Brake

Spec == Init /\ [][Next]_vars
=============================================================================
