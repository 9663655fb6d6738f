---------------------------- MODULE ShareDeduper ----------------------------
(***************************************************************************)
(* stratum.shareDeduper (stratum/duplicate.go): the fixed-size set of      *)
(* share keys a session remembers.  ring grows by append to Max keys and   *)
(* is then overwritten in a circle, seen indexes its contents.  SeenOrAdd  *)
(* runs under d.mu, so it is atomic.  Keys are the strings of shareKey: a  *)
(* key stands for one spelling of a share.                                 *)
(***************************************************************************)
EXTENDS Integers, Sequences

CONSTANTS Key, Max

ASSUME MaxAssumption == Max \in Nat \ {0}

VARIABLES
    ring,       \* d.ring
    next,       \* d.next, an index from 0
    seen,       \* d.seen
    answer      \* the last submission and what it was told

dedupVars == <<ring, next, seen, answer>>

DedupInit ==
    /\ ring = << >>
    /\ next = 0
    /\ seen = {}
    /\ answer = [dup |-> FALSE]

Duplicate(k) ==
    /\ k \in seen
    /\ answer' = [key |-> k, dup |-> TRUE]
    /\ UNCHANGED <<ring, next, seen>>

(* While the ring grows nothing is forgotten.                             *)
Grow(k) ==
    /\ k \notin seen /\ Len(ring) < Max
    /\ ring' = Append(ring, k)
    /\ seen' = seen \cup {k}
    /\ answer' = [key |-> k, dup |-> FALSE]
    /\ UNCHANGED next

(* Mutants: next runs off the ring; next is left where it was, so one     *)
(* slot is overwritten for ever.                                          *)
OverwriteNoWrap(k) ==
    /\ k \notin seen /\ Len(ring) >= Max
    /\ ring' = [ring EXCEPT ![next + 1] = k]
    /\ seen' = (seen \ {ring[next + 1]}) \cup {k}
    /\ next' = next + 1
    /\ answer' = [key |-> k, dup |-> FALSE]

OverwriteInPlace(k) ==
    /\ k \notin seen /\ Len(ring) >= Max
    /\ ring' = [ring EXCEPT ![next + 1] = k]
    /\ seen' = (seen \ {ring[next + 1]}) \cup {k}
    /\ answer' = [key |-> k, dup |-> FALSE]
    /\ UNCHANGED next

(* A full ring forgets the key at next.                                   *)
Overwrite(k) ==
    /\ k \notin seen /\ Len(ring) >= Max
    /\ ring' = [ring EXCEPT ![next + 1] = k]
    /\ seen' = (seen \ {ring[next + 1]}) \cup {k}
    /\ next' = (next + 1) % Max
    /\ answer' = [key |-> k, dup |-> FALSE]

SeenOrAdd(k) == Duplicate(k) \/ Grow(k) \/ Overwrite(k)

DedupNext == \E k \in Key : SeenOrAdd(k)

DedupSpec == DedupInit /\ [][DedupNext]_dedupVars

-----------------------------------------------------------------------------
DedupTypeOK ==
    /\ ring \in Seq(Key)
    /\ next \in 0 .. Max - 1
    /\ seen \subseteq Key
    /\ answer \in {[dup |-> FALSE]} \cup [key : Key, dup : BOOLEAN]

(* The index and the ring hold the same keys, each once: no key is        *)
(* forgotten while the ring still carries it, none stays in seen for ever *)
(* after its slot was overwritten (which would reject a worker's good     *)
(* shares), and the filter never holds more than Max keys.                *)
IndexMatchesRing ==
    /\ Len(ring) <= Max
    /\ Len(ring) < Max => next = 0
    /\ seen = {ring[i] : i \in 1 .. Len(ring)}
    /\ \A i, j \in 1 .. Len(ring) : ring[i] = ring[j] => i = j

(* The ring read from its oldest key on.                                  *)
Slot(i) == IF next + i <= Len(ring) THEN next + i ELSE next + i - Len(ring)
OldestFirst == [i \in 1 .. Len(ring) |-> ring[Slot(i)]]

Promise == INSTANCE RecentKeys WITH recent <- OldestFirst

(* The filter keeps the promise of RecentKeys.                            *)
RemembersRecentKeys == Promise!RKSpec
=============================================================================
