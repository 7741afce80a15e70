---------------------------- MODULE SessionLease ----------------------------
(***************************************************************************)
(* What a session store promises about leases and checkpoints (contract    *)
(* invariants I-2, I-3 and I-4 of runtime/src/ports/session-store.ts), with *)
(* no clock and no storage.                                                *)
(*                                                                         *)
(* A session has at most one owner, named by a fencing token.  `trusting'  *)
(* are the tokens whose holders have reason to think that they own it.  A  *)
(* new owner comes only when nobody trusts in an old one, tokens only grow, *)
(* and only the owner adds to the session's checkpoints.                   *)
(***************************************************************************)
EXTENDS Naturals

CONSTANTS
    Session,
    TokenId      \* the fencing tokens there are: positive numbers, in the order of issue

VARIABLES
    owner,       \* the token each session is leased to, 0 for none
    issued,      \* the newest token each session was ever leased to
    trusting,    \* the tokens whose holders rely on the lease
    head         \* the newest checkpoint: its sequence and its author's token

leaseVars == <<owner, issued, trusting, head>>

NoCheckpoint == [sequence |-> 0, by |-> 0]

LeaseInit ==
    /\ owner = [s \in Session |-> 0]
    /\ issued = [s \in Session |-> 0]
    /\ trusting = [s \in Session |-> {}]
    /\ head = [s \in Session |-> NoCheckpoint]

\* A caller becomes the owner; the lease may have run out before it hears so.
Grant(s, t) ==
    /\ trusting[s] = {}
    /\ t > issued[s]
    /\ owner' = [owner EXCEPT ![s] = t]
    /\ issued' = [issued EXCEPT ![s] = t]
    /\ \E trust \in SUBSET {t} : trusting' = [trusting EXCEPT ![s] = trust]
    /\ UNCHANGED head

\* The owner is told, again, that the session is its.
Confirm(s) ==
    /\ owner[s] # 0
    /\ trusting' = [trusting EXCEPT ![s] = @ \cup {owner[s]}]
    /\ UNCHANGED <<owner, issued, head>>

\* Time passes for the holders, or they give up.
Lapse ==
    /\ \A s \in Session : trusting'[s] \subseteq trusting[s]
    /\ trusting' = [s \in Session |-> trusting'[s]]
    /\ UNCHANGED <<owner, issued, head>>

\* The session is taken from its owner: released, expired or finalized.
Disown(s) ==
    /\ owner' = [owner EXCEPT ![s] = 0]
    /\ trusting' = [trusting EXCEPT ![s] = {}]
    /\ UNCHANGED <<issued, head>>

\* The owner adds the next checkpoint.
Write(s) ==
    /\ owner[s] # 0
    /\ head' = [head EXCEPT ![s] = [sequence |-> @.sequence + 1, by |-> owner[s]]]
    /\ UNCHANGED <<owner, issued, trusting>>

Forget(s) ==
    /\ owner' = [owner EXCEPT ![s] = 0]
    /\ trusting' = [trusting EXCEPT ![s] = {}]
    /\ head' = [head EXCEPT ![s] = NoCheckpoint]
    /\ UNCHANGED issued

\* A removal that got half-way: the checkpoints are gone, the lease is left, and
\* nobody relies on it.
Lose(s) ==
    /\ trusting' = [trusting EXCEPT ![s] = {}]
    /\ head' = [head EXCEPT ![s] = NoCheckpoint]
    /\ UNCHANGED <<owner, issued>>

LeaseNext ==
    \/ \E s \in Session :
         \/ \E t \in TokenId : Grant(s, t)
         \/ Confirm(s) \/ Disown(s) \/ Write(s) \/ Forget(s) \/ Lose(s)
    \/ Lapse

LeaseSpec == LeaseInit /\ [][LeaseNext]_leaseVars

=============================================================================
