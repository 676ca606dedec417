---------------------------- MODULE SlidingWindow ----------------------------
(***************************************************************************)
(* What checkRateLimit promises: a request is allowed exactly when fewer   *)
(* than Max[k] requests of its key were allowed in the window that ends    *)
(* now.  The specification remembers every allowed request for ever; the   *)
(* program (RateLimit) keeps pruned arrays and sweeps idle keys, and must  *)
(* give the same answers.                                                  *)
(***************************************************************************)
EXTENDS Integers, FiniteSets

CONSTANTS
  Clients,    \* rate-limit keys (`login:<user>', `setup:<ip>', `totp:<token>')
  Window,     \* Window[k]: windowMs of the caller that uses key k
  Max,        \* Max[k]: max requests per window
  Second,     \* ticks of the clock per second
  MaxTime     \* bound on the clock

VARIABLES
  now,        \* Date.now()
  log,        \* log[k]: every request of k allowed so far
  serial,     \* the number of the next allowed request
  answer      \* the last RateLimitResult handed out

svars == <<now, log, serial, answer>>

\* The requests of S inside the window of k that ends at time t.
InWindow(S, k, t) == {h \in S : t - Window[k] < h.at /\ h.at <= t}

\* When the oldest of S leaves the window, in whole seconds, rounded up.
Expiry(S, k, t) ==
  LET oldest == IF S = {} THEN t
                ELSE CHOOSE a \in {h.at : h \in S} : \A h \in S : a <= h.at
  IN  (oldest + Window[k] + Second - 1) \div Second

\* The result for key k when `recent' was in the window and `kept' is afterwards.
Result(k, recent, kept, t) ==
  [client    |-> k,
   allowed   |-> Cardinality(recent) < Max[k],
   remaining |-> IF Cardinality(kept) <= Max[k] THEN Max[k] - Cardinality(kept) ELSE 0,
   resetAt   |-> Expiry(kept, k, t)]

NoAnswer == [client |-> "nobody"]

SInit ==
  /\ now = 0
  /\ log = [k \in Clients |-> {}]
  /\ serial = 0
  /\ answer = NoAnswer

STick ==
  /\ now < MaxTime
  /\ now' = now + 1
  /\ UNCHANGED <<log, serial, answer>>

SRequest(k) ==
  LET recent == InWindow(log[k], k, now)
      hit    == [at |-> now, id |-> serial]
  IN  /\ \/ /\ Cardinality(recent) < Max[k]
            /\ log' = [log EXCEPT ![k] = @ \cup {hit}]
            /\ serial' = serial + 1
            /\ answer' = Result(k, recent, recent \cup {hit}, now)
         \/ /\ Cardinality(recent) >= Max[k]
            /\ answer' = Result(k, recent, recent, now)
            /\ UNCHANGED <<log, serial>>
      /\ UNCHANGED now

SNext == STick \/ \E k \in Clients : SRequest(k)

SSpec == SInit /\ [][SNext]_svars
=============================================================================
