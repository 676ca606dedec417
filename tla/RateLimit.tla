------------------------------ MODULE RateLimit ------------------------------
(***************************************************************************)
(* lib/rate-limit.ts: the in-memory sliding-window limiter of the login,   *)
(* setup and TOTP routes.                                                  *)
(*                                                                         *)
(* An array of timestamps is a set of hits, each with the time and a       *)
(* serial number that keeps apart the requests of one millisecond; a key   *)
(* that is absent from the Map has no hits.  The clock does not run        *)
(* backwards, so the first and the last element of an array are its oldest *)
(* and its newest.  `log' and `told' are history variables.                *)
(***************************************************************************)
EXTENDS SlidingWindow

CONSTANT
  GcAge       \* the sweep deletes keys idle for longer than this (one hour)

ASSUME RateLimitAssumption ==
  /\ MaxTime \in Nat /\ GcAge \in Nat
  /\ Second \in Nat \ {0}
  /\ Window \in [Clients -> Nat \ {0}]
  /\ Max \in [Clients -> Nat \ {0}]
  /\ \A k \in Clients : Window[k] <= GcAge    \* 5 min, 15 min and 1 h against 1 h

VARIABLES
  store,      \* store[k]: the hits of the entry of k
  told        \* told[k]: the retry times given to k since its last allowed request

rvars == <<now, log, answer, store, serial, told>>

Hit == [at : Nat, id : Nat]

RInit ==
  /\ SInit
  /\ store = [k \in Clients |-> {}]
  /\ told = [k \in Clients |-> {}]

Tick ==
  /\ STick
  /\ UNCHANGED <<store, told>>

\* Mutated form: the cut-off of the filter includes its end.
MutFilter(k) == {h \in store[k] : h.at > now - Window[k] + 1}

\* The filter at the head of checkRateLimit.
Filter(k) == {h \in store[k] : h.at > now - Window[k]}

Allows(k, recent) == Cardinality(recent) < Max[k]

\* When the Retry-After header (resetAt - floor(now / 1000)) sends the client back.
RetryAt(resetAt) == now + (resetAt - now \div Second) * Second

\* checkRateLimit(k) and the header its callers build from a refusal.
Check(k) ==
  LET recent == Filter(k)
      hit    == [at |-> now, id |-> serial]
  IN  /\ \/ /\ Allows(k, recent)
            /\ store' = [store EXCEPT ![k] = recent \cup {hit}]
            /\ answer' = Result(k, recent, recent \cup {hit}, now)
            /\ log' = [log EXCEPT ![k] = @ \cup {hit}]
            /\ serial' = serial + 1
            /\ told' = [told EXCEPT ![k] = {}]
         \/ /\ ~Allows(k, recent)
            /\ store' = [store EXCEPT ![k] = recent]
            /\ answer' = Result(k, recent, recent, now)
            /\ told' = [told EXCEPT ![k] = @ \cup {RetryAt(Expiry(recent, k, now))}]
            /\ UNCHANGED <<log, serial>>
      /\ UNCHANGED now

\* Mutated form: a key goes when its oldest hit is old.
MutIdle(k) == \E h \in store[k] : h.at < now - GcAge

\* An empty entry, or one whose newest hit is older than the cut-off.
IdleEntry(k) == \A h \in store[k] : h.at < now - GcAge

\* The interval callback; the event loop may run it at any time after it is due.
Sweep ==
  /\ store' = [k \in Clients |-> IF IdleEntry(k) THEN {} ELSE store[k]]
  /\ UNCHANGED <<now, log, answer, serial, told>>

RNext == Tick \/ Sweep \/ \E k \in Clients : Check(k)

RSpec == RInit /\ [][RNext]_rvars

-----------------------------------------------------------------------------
RTypeOK ==
  /\ now \in 0 .. MaxTime
  /\ log \in [Clients -> SUBSET Hit]
  /\ store \in [Clients -> SUBSET Hit]
  /\ serial \in Nat
  /\ told \in [Clients -> SUBSET Nat]

\* In no window, wherever it ends, were more than Max[k] requests of k allowed, whatever
\* the filter dropped and the sweep deleted in between.
WindowCap ==
  \A k \in Clients : \A t \in 0 .. now : Cardinality(InWindow(log[k], k, t)) <= Max[k]

\* "Memory footprint stays bounded": no entry outgrows the limit of its key.
EntryBounded == \A k \in Clients : Cardinality(store[k]) <= Max[k]

\* A client that comes back when a 429 told it to finds a free slot, unless it was
\* allowed a request in the meantime.
RetryHonoured ==
  \A k \in Clients : \A t \in told[k] : now >= t => Allows(k, Filter(k))

\* The heart of the inductive invariant of AccountsProofs: the entries hold every hit that any
\* window still counts.
NothingRecentLost ==
  \A k \in Clients :
    /\ IsFiniteSet(log[k]) /\ store[k] \subseteq log[k]
    /\ \A h \in log[k] : /\ h.at <= now /\ h.id < serial
                         /\ h.at > now - Window[k] => h \in store[k]

\* The answers, the sweep included, are those of a limiter that never forgets.
SlidingWindowSpec == SSpec
=============================================================================
