----------------------------- MODULE RecentKeys -----------------------------
(***************************************************************************)
(* What the duplicate-share filter of a session promises: a submitted key  *)
(* is called a duplicate exactly when it is one of the last Max different  *)
(* keys that were not, the longest remembered of which is forgotten first. *)
(***************************************************************************)
EXTENDS Integers, Sequences

CONSTANTS
    Key,    \* the submitted keys
    Max     \* how many are remembered, at least 1

VARIABLES
    recent,     \* the remembered keys, oldest first
    answer      \* the last submission and what it was told

rkVars == <<recent, answer>>

NoAnswer == [dup |-> FALSE]

RKInit == recent = << >> /\ answer = NoAnswer

Remembered(k) == \E i \in 1 .. Len(recent) : recent[i] = k

SubmitKey(k) ==
    /\ answer' = [key |-> k, dup |-> Remembered(k)]
    /\ recent' = IF Remembered(k) THEN recent
                 ELSE IF Len(recent) < Max THEN Append(recent, k)
                 ELSE Append(Tail(recent), k)

RKNext == \E k \in Key : SubmitKey(k)

RKSpec == RKInit /\ [][RKNext]_rkVars
=============================================================================
