------------------------------ MODULE RateLimit ------------------------------
(***************************************************************************)
(* The rate limiter of the deploy handlers (ratelimit/ratelimit.go,        *)
(* deploy/handlers.go): a fixed window in memory for every key, and a      *)
(* cleanup goroutine that drops the stale ones.  A mutex makes each call   *)
(* one step; the clock moves between them.  The windows of one process     *)
(* life are modelled: a restart forgets them.                              *)
(***************************************************************************)
EXTENDS Naturals, Sequences

CONSTANTS
  Keys,      \* "deploy:" + user id, and the other keys of tooOften
  Limit,     \* max: grants in a window
  Per,       \* the length of a window
  LastTick   \* the clock stops here; bounds the model

ASSUME LimitOK == Limit \in Nat \ {0} /\ Per \in Nat /\ LastTick \in Nat

VARIABLES
  clock,
  hits,      \* key -> its window: how many grants, when it is over
  granted,   \* key -> its grants: when, and whether a window opened with it
  refused    \* key -> when it was refused last, and how many grants it had

limitVars == <<clock, hits, granted, refused>>

NoWindow == [count |-> 0, reset |-> 0]
Window == [count : 0 .. Limit, reset : Nat]
Grant == [at : Nat, opens : BOOLEAN]
Refusal == [at : Nat, had : Nat]

LimitTypeOK ==
  /\ clock \in Nat
  /\ hits \in [Keys -> Window]
  /\ granted \in [Keys -> Seq(Grant)]
  /\ refused \in [Keys -> Refusal]

LimitInit ==
  /\ clock = 0
  /\ hits = [k \in Keys |-> NoWindow]
  /\ granted = [k \in Keys |-> <<>>]
  /\ refused = [k \in Keys |-> [at |-> 0, had |-> 0]]

(* There is no window, or now.After(w.reset).                              *)
Over(k) == hits[k] = NoWindow \/ clock > hits[k].reset

Grants(k, opens) == granted' = [granted EXCEPT ![k] = Append(@, [at |-> clock, opens |-> opens])]

OpenWindow(k) ==
  /\ Over(k)
  /\ hits' = [hits EXCEPT ![k] = [count |-> 1, reset |-> clock + Per]]
  /\ Grants(k, TRUE)
  /\ UNCHANGED <<clock, refused>>

(* Mutant of CountInWindow: one grant too many.                            *)
CountInWindowOver(k) ==
  /\ ~Over(k) /\ hits[k].count <= Limit
  /\ hits' = [hits EXCEPT ![k].count = @ + 1]
  /\ Grants(k, FALSE)
  /\ UNCHANGED <<clock, refused>>

CountInWindow(k) ==
  /\ ~Over(k) /\ hits[k].count < Limit
  /\ hits' = [hits EXCEPT ![k].count = @ + 1]
  /\ Grants(k, FALSE)
  /\ UNCHANGED <<clock, refused>>

(* tooOften answers 429.                                                   *)
Refuse(k) ==
  /\ ~Over(k) /\ hits[k].count >= Limit
  /\ refused' = [refused EXCEPT ![k] = [at |-> clock, had |-> Len(granted[k])]]
  /\ UNCHANGED <<clock, hits, granted>>

Allow(k) == OpenWindow(k) \/ CountInWindow(k) \/ Refuse(k)

(* Mutant of Stale: every window a grant was counted in is dropped.        *)
StaleAny(k) == hits[k].count > 0

Stale(k) == clock > hits[k].reset

(* The cleanup goroutine, every ten minutes of its own clock.              *)
Cleanup ==
  /\ hits' = [k \in Keys |-> IF Stale(k) THEN NoWindow ELSE hits[k]]
  /\ UNCHANGED <<clock, granted, refused>>

TimePasses ==
  /\ clock < LastTick
  /\ clock' = clock + 1
  /\ UNCHANGED <<hits, granted, refused>>

LimitNext == TimePasses \/ Cleanup \/ \E k \in Keys : Allow(k)

LimitSpec == LimitInit /\ [][LimitNext]_limitVars

-----------------------------------------------------------------------------
(* "max per period for this key" (ratelimit.go:27): the windows follow     *)
(* each other and are not sliding, so that two of them may meet in one     *)
(* period; of 2 * Limit + 1 grants in a row the last comes more than a     *)
(* period after the first, whenever the cleanup ran.                       *)
NoBurst ==
  \A k \in Keys : \A i \in 1 .. Len(granted[k]) :
    i + 2 * Limit \in 1 .. Len(granted[k]) =>
      granted[k][i + 2 * Limit].at > granted[k][i].at + Per

(* Nobody is refused who did not use the limit up within one period.       *)
RefusedIsFull ==
  \A k \in Keys :
    refused[k].had > 0 =>
      /\ refused[k].had \in Limit .. Len(granted[k])
      /\ granted[k][refused[k].had - Limit + 1].at + Per >= refused[k].at

LimitHolds == NoBurst /\ RefusedIsFull
=============================================================================
