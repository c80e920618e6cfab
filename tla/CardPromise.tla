----------------------------- MODULE CardPromise -----------------------------
(***************************************************************************)
(* What login with an NFC card or its QR copy promises the owner of a      *)
(* wallet: one card at most is valid at a time; a card that was replaced   *)
(* or revoked is never valid again; a wrong PIN costs one of a few         *)
(* attempts, and without attempts left the card is locked for good; a      *)
(* login attempt opens one session at most, with the card valid then.      *)
(***************************************************************************)
EXTENDS Integers, Sequences

CONSTANTS Cards, Challenges, Attempts, NoCard

VARIABLES
  valid,     \* the active card
  expired,   \* cards past their expiry
  left,      \* attempts left on the active card
  spent,     \* cards that are or were valid
  sessions   \* the cards each login attempt has opened sessions with

promiseVars == <<valid, expired, left, spent, sessions>>

Init ==
  /\ valid = NoCard /\ expired = {} /\ left = Attempts /\ spent = {}
  /\ sessions = [c \in Challenges |-> <<>>]

Activate(card) ==
  /\ card \notin spent /\ spent' = spent \cup {card}
  /\ valid' = card /\ left' = Attempts
  /\ UNCHANGED <<expired, sessions>>

Revoke ==
  /\ valid' = NoCard
  /\ UNCHANGED <<expired, left, spent, sessions>>

Expire(card) ==
  /\ expired' = expired \cup {card}
  /\ UNCHANGED <<valid, left, spent, sessions>>

Usable == valid # NoCard /\ valid \notin expired /\ left > 0

WrongPin ==
  /\ Usable /\ left' = left - 1
  /\ UNCHANGED <<valid, expired, spent, sessions>>

Login(c) ==
  /\ Usable /\ left' = Attempts
  /\ sessions[c] = <<>> /\ sessions' = [sessions EXCEPT ![c] = <<valid>>]
  /\ UNCHANGED <<valid, expired, spent>>

Next ==
  \/ \E card \in Cards : Activate(card) \/ Expire(card)
  \/ Revoke \/ WrongPin
  \/ \E c \in Challenges : Login(c)

Spec == Init /\ [][Next]_promiseVars
=============================================================================
