---------------------------- MODULE TokenSource ----------------------------
(***************************************************************************)
(* The cached bearer token of generator/src/otlp_client.py.  A caller      *)
(* reads the clock before it takes the lock, so it may decide with a stale *)
(* reading, and the request it sends with the token arrives later still.   *)
(*                                                                         *)
(* Time is kept as ages: a token's age is the time since the reading its   *)
(* expiry was computed from.  Res ticks make a second.                     *)
(***************************************************************************)
EXTENDS Integers

CONSTANTS
  Callers,   \* the threads that call bearer()
  None,      \* no reading in hand, no token in hand
  TTL,       \* auth.token_ttl_seconds, in ticks
  Refresh,   \* three quarters of it
  Res,       \* ticks in a second
  MaxStall   \* bound: how old a caller's reading may get

ASSUME TokenAssumption ==
  /\ None \notin Int
  /\ TTL \in Nat \ {0} /\ Refresh \in Nat /\ 4 * Refresh = 3 * TTL
  /\ Res \in Nat \ {0} /\ MaxStall \in Nat

VARIABLES
  token,    \* the cached token: its age, and how much earlier than exactly
            \* TTL after the reading it expires, because "iat" is int(now)
  readAge,  \* age of each caller's reading, or None
  held      \* the token each caller's request carries, or None

tokenVars == <<token, readAge, held>>

\* Ages stop growing here: a token this old is due for every reading, and no
\* request carries one.
Horizon == Refresh + MaxStall

Tokens == [age : 0..Horizon, early : 0..Res - 1]

\* _token = "" and _expires_at = 0.0: expired for every caller.
TokenInit ==
  /\ token = [age |-> Horizon, early |-> 0]
  /\ readAge = [w \in Callers |-> None]
  /\ held = [w \in Callers |-> None]

\* now = time.time(), before the lock
ReadClock(w) ==
  /\ readAge[w] = None
  /\ readAge' = [readAge EXCEPT ![w] = 0]
  /\ UNCHANGED <<token, held>>

MustMint_AtExpiry(w) == token.age - readAge[w] >= TTL    \* mutant: no margin
MustMint_Always(w)   == TRUE    \* mutant: the cached token is never looked at

\* not now < self._expires_at
MustMint(w) == token.age - readAge[w] >= Refresh

\* Under the lock: the cached token, or one dated with the caller's reading.
Bearer(w) ==
  /\ readAge[w] # None /\ held[w] = None
  /\ \/ ~MustMint(w) /\ token' = token
     \/ /\ MustMint(w)
        /\ \E e \in 0..Res - 1 : token' = [age |-> readAge[w], early |-> e]
  /\ held' = [held EXCEPT ![w] = token']
  /\ UNCHANGED readAge

\* The collector verifies "exp" when the request arrives.
Refused(w) == held[w].age >= TTL - held[w].early

\* The request has arrived, or has failed before it did.
Forget(w) ==
  /\ held[w] # None
  /\ readAge' = [readAge EXCEPT ![w] = None]
  /\ held' = [held EXCEPT ![w] = None]
  /\ UNCHANGED token

Older(t) == [t EXCEPT !.age = IF @ < Horizon THEN @ + 1 ELSE @]

Tick ==
  /\ \A w \in Callers : readAge[w] # None => readAge[w] < MaxStall
  /\ token' = Older(token)
  /\ readAge' = [w \in Callers |->
                   IF readAge[w] = None THEN None ELSE readAge[w] + 1]
  /\ held' = [w \in Callers |->
                IF held[w] = None THEN None ELSE Older(held[w])]

-----------------------------------------------------------------------------
(* Properties                                                              *)

\* otlp_client.py:49-51 refreshes at 75% of the lifetime so that a long run
\* never sees a flood of UNAUTHENTICATED.  However stale the reading bearer()
\* decided with, a request that arrives within a quarter of the lifetime of
\* that reading, less the second "iat" is rounded down by, is not refused.
PromptRequestsAreFresh ==
  \A w \in Callers :
    held[w] # None /\ readAge[w] + Res - 1 <= TTL - Refresh => ~Refused(w)

\* Callers race to the lock with readings of different ages
\* (otlp_client.py:75-91).  The tokens their requests carry at one time are
\* one and the same or are dated at least Refresh apart, and none is newer
\* than the cached one: a caller that waited for the lock while another one
\* minted does not mint again, and an old reading never puts back an older
\* token than one already sent.
TokensAreSpaced ==
  \A w \in Callers : held[w] # None =>
    /\ token.age <= held[w].age
    /\ \A v \in Callers : held[v] \notin {None, held[w]} =>
         \/ held[v].age + Refresh <= held[w].age
         \/ held[w].age + Refresh <= held[v].age

=============================================================================
