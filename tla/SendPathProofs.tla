--------------------------- MODULE SendPathProofs ---------------------------
(***************************************************************************)
(* Proofs about SendPath, for every pool, lifetime, stall and batch.       *)
(***************************************************************************)
EXTENDS SendPath, TLAPS

-----------------------------------------------------------------------------
(* The token                                                               *)

\* A request carries a token that was younger than Refresh, by the clock its
\* caller had read, when the caller took it; ageing keeps the distance.
TokenInv ==
  /\ token \in Tokens
  /\ readAge \in [Callers -> 0..MaxStall \cup {None}]
  /\ held \in [Callers -> Tokens \cup {None}]
  /\ \A w \in Callers : held[w] # None =>
       readAge[w] # None /\ held[w].age - readAge[w] < Refresh

\* Three quarters of a lifetime is at least one tick, and less than all of it.
LEMMA RefreshRange == Refresh \in 1..TTL
BY TokenAssumption

\* main() starts without a token and without a reading.
LEMMA TokenStart == TokenInit => TokenInv
BY TokenAssumption, RefreshRange DEF TokenInit, TokenInv, Tokens, Horizon

\* A caller that reads the clock holds no token yet.
LEMMA ReadClockToken ==
  ASSUME TokenInv, NEW w \in Callers, ReadClock(w)
  PROVE  TokenInv'
BY TokenAssumption DEF TokenInv, ReadClock

\* bearer() returns the cached token only if it is young enough by the
\* caller's reading, or else one dated with that very reading.
LEMMA BearerToken ==
  ASSUME TokenInv, NEW w \in Callers, Bearer(w)
  PROVE  /\ TokenInv'
         /\ token' # token => token'.age + Refresh <= token.age
<1>1. readAge[w] \in 0..MaxStall /\ readAge' = readAge
    BY DEF TokenInv, Bearer
<1>2. token' \in Tokens /\ token'.age - readAge[w] < Refresh
  <2>1. CASE ~MustMint(w) /\ token' = token
      BY <1>1, <2>1, TokenAssumption DEF TokenInv, MustMint, Tokens, Horizon
  <2>2. CASE /\ MustMint(w)
             /\ \E e \in 0..Res - 1 : token' = [age |-> readAge[w], early |-> e]
      BY <1>1, <2>2, TokenAssumption, RefreshRange DEF Tokens, Horizon
  <2> QED
      BY <2>1, <2>2 DEF Bearer
<1>3. held' = [held EXCEPT ![w] = token']
    BY DEF Bearer
<1>4. TokenInv'
    BY <1>1, <1>2, <1>3, TokenAssumption DEF TokenInv
<1>5. token' # token => token'.age + Refresh <= token.age
    BY <1>1, TokenAssumption, RefreshRange DEF Bearer, MustMint, TokenInv, Tokens, Horizon
<1> QED
    BY <1>4, <1>5

\* A caller whose request has ended has neither a token nor a reading.
LEMMA ForgetToken ==
  ASSUME TokenInv, NEW w \in Callers, Forget(w)
  PROVE  TokenInv'
BY TokenAssumption DEF TokenInv, Forget

\* Ages grow together; where an age stops growing, the distance shrinks.
LEMMA TickToken ==
  ASSUME TokenInv, Tick
  PROVE  TokenInv'
<1>1. \A t \in Tokens : /\ Older(t) \in Tokens
                        /\ Older(t).age <= t.age + 1
    BY TokenAssumption, RefreshRange DEF Older, Tokens, Horizon
<1>2. token' \in Tokens
    BY <1>1 DEF TokenInv, Tick
<1>3. readAge' \in [Callers -> 0..MaxStall \cup {None}]
    BY TokenAssumption DEF TokenInv, Tick
<1>4. held' \in [Callers -> Tokens \cup {None}]
    BY <1>1 DEF TokenInv, Tick
<1>5. ASSUME NEW w \in Callers, held'[w] # None
      PROVE  readAge'[w] # None /\ held'[w].age - readAge'[w] < Refresh
  <2>1. held[w] # None /\ held[w] \in Tokens /\ held'[w] = Older(held[w])
      BY <1>5 DEF TokenInv, Tick
  <2>2. readAge[w] \in 0..MaxStall /\ readAge'[w] = readAge[w] + 1
      BY <2>1, TokenAssumption DEF TokenInv, Tick
  <2>3. held[w].age \in Int /\ held'[w].age \in Int
      BY <1>1, <2>1, TokenAssumption DEF Tokens, Horizon
  <2>4. held[w].age - readAge[w] < Refresh
      BY <2>1 DEF TokenInv
  <2>5. held'[w].age <= held[w].age + 1
      BY <1>1, <2>1
  <2> QED
      BY <2>2, <2>3, <2>4, <2>5, TokenAssumption
<1> QED
    BY <1>2, <1>3, <1>4, <1>5 DEF TokenInv

\* What a step of the program does to the token is one of the five.
LEMMA TokenSteps ==
  Next => \/ \E w \in Callers : ReadClock(w) \/ Bearer(w) \/ Forget(w)
          \/ Tick \/ UNCHANGED tokenVars
BY DEF Next, Feed, Offer, StopEngine, StopSampling, Worker, Take, Stamp,
       AskToken, Call, Return, Raise, Resume, End, Reporting, TimePasses

\* The invariant is inductive.
LEMMA TokenStep ==
  ASSUME TokenInv, [Next]_vars
  PROVE  TokenInv'
<1>1. CASE UNCHANGED tokenVars
    BY <1>1 DEF TokenInv, tokenVars
<1>2. CASE UNCHANGED vars
    BY <1>1, <1>2 DEF vars
<1> QED
    BY <1>1, <1>2, TokenSteps, ReadClockToken, BearerToken, ForgetToken, TickToken

\* The invariant holds in every state of a run.
LEMMA TokenAlways == Spec => []TokenInv
<1>1. Init => TokenInv
    BY TokenStart DEF Init
<1>2. TokenInv /\ [Next]_vars => TokenInv'
    BY TokenStep
<1> QED
    BY <1>1, <1>2, PTL DEF Spec

\* For every lifetime, stall and pool: a request that arrives within a quarter
\* of the lifetime of its caller's reading of the clock is not refused.
THEOREM PromptRequestsStayFresh == Spec => []PromptRequestsAreFresh
<1>1. TokenInv => PromptRequestsAreFresh
  <2> SUFFICES ASSUME TokenInv, NEW w \in Callers, held[w] # None,
                      readAge[w] + Res - 1 <= TTL - Refresh
               PROVE  ~Refused(w)
      BY DEF PromptRequestsAreFresh
  <2>1. held[w] \in Tokens /\ held[w].age \in Int /\ held[w].early \in 0..Res - 1
      BY TokenAssumption DEF TokenInv, Tokens, Horizon
  <2>2. readAge[w] \in Int /\ held[w].age - readAge[w] < Refresh
      BY TokenAssumption DEF TokenInv
  <2> QED
      BY <2>1, <2>2, TokenAssumption DEF Refused
<1> QED
    BY <1>1, TokenAlways, PTL

\* Each request carries the cached token or one at least Refresh older, and
\* so do the requests among themselves.
Spaced ==
  /\ \A w \in Callers : held[w] # None =>
       held[w] = token \/ token.age + Refresh <= held[w].age
  /\ \A v, w \in Callers : held[v] # None /\ held[w] # None =>
       \/ held[v] = held[w]
       \/ held[v].age + Refresh <= held[w].age
       \/ held[w].age + Refresh <= held[v].age

\* bearer() keeps the distance: a token minted now is Refresh younger than
\* the cached one, and so than every token that is on its way.
LEMMA BearerSpaced ==
  ASSUME TokenInv, Spaced, NEW w \in Callers, Bearer(w)
  PROVE  Spaced'
<1>1. held' = [held EXCEPT ![w] = token'] /\ token' \in Tokens
    BY BearerToken DEF Bearer, TokenInv
<1>2. \A t \in Tokens : t.age \in Int
    BY TokenAssumption DEF Tokens, Horizon
<1>3. \A v \in Callers : v # w /\ held[v] # None =>
        held[v] \in Tokens /\ held'[v] = held[v]
    BY <1>1 DEF TokenInv
<1>4. held'[w] = token' /\ token \in Tokens
    BY <1>1 DEF TokenInv
<1>5. \A v \in Callers : v # w /\ held[v] # None =>
        held[v] = token' \/ token'.age + Refresh <= held[v].age
  <2>1. CASE token' = token
      BY <2>1 DEF Spaced
  <2>2. CASE token' # token
    <3>1. token'.age + Refresh <= token.age
        BY <2>2, BearerToken
    <3>2. \A v \in Callers : held[v] # None => token.age <= held[v].age
        BY <1>2, <1>4, RefreshRange, TokenAssumption DEF Spaced, TokenInv
    <3> QED
        BY <1>1, <1>2, <1>3, <1>4, <3>1, <3>2, RefreshRange, TokenAssumption
  <2> QED
      BY <2>1, <2>2
<1>6. \A v \in Callers : v # w => held'[v] = held[v]
    BY <1>1 DEF TokenInv
<1>7. \A u \in Callers : held'[u] # None =>
        held'[u] = token' \/ token'.age + Refresh <= held'[u].age
    BY <1>4, <1>5, <1>6
<1>8. ASSUME NEW u \in Callers, NEW v \in Callers,
             held'[u] # None, held'[v] # None
      PROVE  \/ held'[u] = held'[v]
             \/ held'[u].age + Refresh <= held'[v].age
             \/ held'[v].age + Refresh <= held'[u].age
  <2>1. CASE u # w /\ v # w
      BY <1>6, <1>8, <2>1 DEF Spaced
  <2>2. CASE u = w \/ v = w
      BY <1>4, <1>7, <1>8, <2>2
  <2> QED
      BY <2>1, <2>2
<1> QED
    BY <1>7, <1>8 DEF Spaced

\* No token on its way has an age that has stopped growing, and the cached one
\* is no older: time keeps every distance.
LEMMA TickSpaced ==
  ASSUME TokenInv, Spaced, Tick
  PROVE  Spaced'
<1>1. TokenInv'
    BY TickToken
<1>2. \A w \in Callers : held'[w] # None =>
        /\ held[w] # None /\ held[w] \in Tokens /\ held'[w] = Older(held[w])
        /\ held[w].age < Horizon
  <2> SUFFICES ASSUME NEW w \in Callers, held'[w] # None
               PROVE  /\ held[w] # None /\ held[w] \in Tokens
                      /\ held'[w] = Older(held[w]) /\ held[w].age < Horizon
      OBVIOUS
  <2>1. held[w] # None /\ held[w] \in Tokens /\ held'[w] = Older(held[w])
      BY DEF TokenInv, Tick
  <2>2. readAge[w] \in 0..MaxStall /\ held[w].age - readAge[w] < Refresh
      BY <2>1, TokenAssumption DEF TokenInv
  <2>3. held[w].age \in Int
      BY <2>1, TokenAssumption DEF Tokens, Horizon
  <2> QED
      BY <2>1, <2>2, <2>3, TokenAssumption DEF Horizon
<1>3. \A t \in Tokens : t.age < Horizon =>
        Older(t) = [t EXCEPT !.age = @ + 1] /\ Older(t).age = t.age + 1
    BY TokenAssumption DEF Older, Tokens, Horizon
<1>4. token' = Older(token) /\ token \in Tokens
    BY DEF Tick, TokenInv
<1>5. \A t \in Tokens : t.age \in Int
    BY TokenAssumption DEF Tokens, Horizon
<1>6. Refresh \in Int /\ Refresh > 0 /\ Horizon \in Int
    BY RefreshRange, TokenAssumption DEF Horizon
<1>7. ASSUME NEW w \in Callers, held'[w] # None
      PROVE  held'[w] = token' \/ token'.age + Refresh <= held'[w].age
  <2>1. CASE held[w] = token
      BY <1>2, <1>4, <1>7, <2>1
  <2>2. CASE token.age + Refresh <= held[w].age
    <3>1. token.age < Horizon
        BY <1>2, <1>4, <1>5, <1>6, <1>7, <2>2
    <3> QED
        BY <1>2, <1>3, <1>4, <1>5, <1>6, <1>7, <2>2, <3>1
  <2> QED
      BY <1>2, <1>7, <2>1, <2>2 DEF Spaced
<1>8. ASSUME NEW v \in Callers, NEW w \in Callers,
             held'[v] # None, held'[w] # None
      PROVE  \/ held'[v] = held'[w]
             \/ held'[v].age + Refresh <= held'[w].age
             \/ held'[w].age + Refresh <= held'[v].age
  <2>1. held'[v].age = held[v].age + 1 /\ held'[w].age = held[w].age + 1
      BY <1>2, <1>3, <1>8
  <2>2. held[v].age \in Int /\ held[w].age \in Int
      BY <1>2, <1>5, <1>8
  <2>3. held[v] = held[w] => held'[v] = held'[w]
      BY <1>2, <1>8
  <2>4. \/ held[v] = held[w]
        \/ held[v].age + Refresh <= held[w].age
        \/ held[w].age + Refresh <= held[v].age
      BY <1>2, <1>8 DEF Spaced
  <2> QED
      BY <1>6, <2>1, <2>2, <2>3, <2>4
<1> QED
    BY <1>7, <1>8 DEF Spaced

\* For every lifetime, stall and pool: the tokens that are on their way are
\* one and the same or at least Refresh apart, and the cached one is the newest.
THEOREM TokensStaySpaced == Spec => []TokensAreSpaced
<1>1. Init => Spaced
    BY DEF Init, TokenInit, Spaced
<1>2. TokenInv /\ Spaced /\ [Next]_vars => Spaced'
  <2> SUFFICES ASSUME TokenInv, Spaced, [Next]_vars PROVE Spaced'
      OBVIOUS
  <2>1. CASE UNCHANGED tokenVars \/ UNCHANGED vars
      BY <2>1 DEF Spaced, tokenVars, vars
  <2>2. ASSUME NEW w \in Callers, ReadClock(w) PROVE Spaced'
      BY <2>2 DEF ReadClock, Spaced
  <2>3. ASSUME NEW w \in Callers, Forget(w) PROVE Spaced'
      BY <2>3 DEF Forget, Spaced, TokenInv
  <2> QED
      BY <2>1, <2>2, <2>3, BearerSpaced, TickSpaced, TokenSteps
<1>3. TokenInv /\ Spaced => TokensAreSpaced
  <2> SUFFICES ASSUME TokenInv, Spaced, NEW w \in Callers, held[w] # None
               PROVE  token.age <= held[w].age
      BY DEF TokensAreSpaced, Spaced
  <2>1. token.age \in Int /\ held[w].age \in Int
      BY TokenAssumption DEF TokenInv, Tokens, Horizon
  <2> QED
      BY <2>1, RefreshRange, TokenAssumption DEF Spaced
<1> QED
    BY <1>1, <1>2, <1>3, TokenAlways, PTL DEF Spec

-----------------------------------------------------------------------------
(* The templates                                                           *)

\* The slices of the pool do not overlap: a template belongs to one worker.
LEMMA SlicesAreApart ==
  ASSUME NEW v \in Callers, NEW w \in Callers, NEW a \in Nat, NEW b \in Nat,
         TemplateFor(v, a) = TemplateFor(w, b)
  PROVE  v = w
<1> DEFINE x == a % Variants
           y == b % Variants
<1>1. v \in 0..Workers - 1 /\ w \in 0..Workers - 1 /\ v % Workers = v /\ w % Workers = w
    BY PoolAssumption
<1>2. x \in 0..Variants - 1 /\ y \in 0..Variants - 1
    BY PoolAssumption
<1>3. v * Variants + x = w * Variants + y
    BY <1>1 DEF TemplateFor
<1> HIDE DEF x, y
<1>4. ASSUME NEW i \in Nat, NEW j \in Nat, i < j
      PROVE  i * Variants + Variants <= j * Variants
  <2>1. (i + 1) * Variants <= j * Variants
      BY <1>4, PoolAssumption
  <2> QED
      BY <2>1, PoolAssumption
<1>5. \A i \in Nat : i * Variants \in Nat
    BY PoolAssumption
<1>6. CASE v < w
  <2>1. v * Variants + Variants <= w * Variants
      BY <1>1, <1>4, <1>6, PoolAssumption
  <2> QED
      BY <1>1, <1>2, <1>3, <1>5, <2>1, PoolAssumption
<1>7. CASE w < v
  <2>1. w * Variants + Variants <= v * Variants
      BY <1>1, <1>4, <1>7, PoolAssumption
  <2> QED
      BY <1>1, <1>2, <1>3, <1>5, <2>1, PoolAssumption
<1> QED
    BY <1>1, <1>6, <1>7, PoolAssumption

\* A worker's templates are in the pool.
LEMMA SliceInPool ==
  ASSUME NEW w \in Callers, NEW a \in Nat
  PROVE  TemplateFor(w, a) \in Templates
<1> DEFINE x == a % Variants
<1>1. w \in 0..Workers - 1 /\ w % Workers = w /\ x \in 0..Variants - 1
    BY PoolAssumption
<1>2. TemplateFor(w, a) = w * Variants + x
    BY <1>1 DEF TemplateFor
<1> HIDE DEF x
<1>3. (w + 1) * Variants <= Workers * Variants /\ (w + 1) * Variants = w * Variants + Variants
    BY <1>1, PoolAssumption
<1>4. w * Variants \in Nat /\ Workers * Variants \in Nat
    BY <1>1, PoolAssumption
<1> QED
    BY <1>1, <1>2, <1>3, <1>4, PoolAssumption DEF Templates

Mine(w) == TemplateFor(w, VariantOf(item[w]))

\* A worker between get() and the call has a batch and has stamped the first
\* records of its template with it; a request in flight is a copy of all.
StampInv ==
  /\ seqs \in [Templates -> [Records -> Nat]]
  /\ taken \in Nat
  /\ wpc \in [Callers -> {"get", "stamp", "token", "flight", "pause", "ended"}]
  /\ item \in [Callers -> Nat \cup {None}]
  /\ stamped \in [Callers -> 0..Batch]
  /\ DOMAIN message = Callers
  /\ \A w \in Callers :
       /\ wpc[w] \in {"stamp", "token"} =>
            /\ item[w] \in Nat
            /\ \A i \in Records :
                 i < stamped[w] => seqs[Mine(w)][i] = item[w] * Batch + i
       /\ wpc[w] \notin {"stamp", "token"} => stamped[w] = 0
       /\ wpc[w] = "token" => stamped[w] = Batch
       /\ message[w] # None => wpc[w] = "flight" /\ message[w] = SeqsOf(item[w])

\* Nothing is stamped or in flight at the start.
LEMMA StampStart == Init => StampInv
BY PoolAssumption DEF Init, StampInv, Records, Templates

\* queue.get()
LEMMA TakeStamp ==
  ASSUME StampInv, NEW w \in Callers, Take(w)
  PROVE  StampInv'
<1>1. seqs' = seqs /\ message' = message /\ stamped' = stamped
    BY DEF Take
<1>2. taken' \in Nat /\ item' = [item EXCEPT ![w] = taken] /\ wpc' = [wpc EXCEPT ![w] = "stamp"]
    BY DEF Take, Go, StampInv
<1>3. stamped[w] = 0 /\ message[w] = None
    BY DEF Take, StampInv
<1>4. \A v \in Callers : v # w => wpc'[v] = wpc[v] /\ Mine(v)' = Mine(v) /\ item'[v] = item[v]
    BY <1>2 DEF Mine, StampInv
<1> QED
    BY <1>1, <1>2, <1>3, <1>4, PoolAssumption DEF StampInv, Records

\* One turn of stamp(): no other worker looks at this template.
LEMMA StampStamp ==
  ASSUME StampInv, NEW w \in Callers, Stamp(w)
  PROVE  StampInv'
<1>1. UNCHANGED <<taken, item, message, wpc>>
    BY DEF Stamp
<1>2. wpc[w] = "stamp" /\ item[w] \in Nat /\ stamped[w] \in Records
    BY PoolAssumption DEF Stamp, StampInv, Records
<1>3. Mine(w) \in Templates
    BY <1>2, SliceInPool, PoolAssumption DEF Mine, VariantOf
<1>4. item[w] * Batch + stamped[w] \in Nat
    BY <1>2, PoolAssumption DEF Records
<1>5. seqs' = [seqs EXCEPT ![Mine(w)][stamped[w]] = item[w] * Batch + stamped[w]]
    BY DEF Stamp, Mine
<1>6. seqs' \in [Templates -> [Records -> Nat]] /\ stamped' \in [Callers -> 0..Batch]
  <2>1. seqs[Mine(w)] \in [Records -> Nat]
      BY <1>3 DEF StampInv
  <2>2. [seqs[Mine(w)] EXCEPT ![stamped[w]] = item[w] * Batch + stamped[w]] \in [Records -> Nat]
      BY <1>4, <2>1
  <2>3. seqs' \in [Templates -> [Records -> Nat]]
      BY <1>3, <1>5, <2>2 DEF StampInv
  <2>4. stamped[w] + 1 \in 0..Batch
      BY <1>2, PoolAssumption DEF Records
  <2> QED
      BY <2>3, <2>4 DEF StampInv, Stamp
<1>7. ASSUME NEW v \in Callers, wpc[v] \in {"stamp", "token"}, NEW i \in Records,
             i < stamped'[v]
      PROVE  seqs'[Mine(v)][i] = item[v] * Batch + i
  <2>0. item[v] \in Nat
      BY <1>7 DEF StampInv
  <2>1. Mine(v) \in Templates
      BY <2>0, SliceInPool, PoolAssumption DEF Mine, VariantOf
  <2>2. CASE v # w
    <3>1. Mine(v) # Mine(w)
        BY <2>0, <2>2, <1>2, SlicesAreApart, PoolAssumption DEF Mine, VariantOf
    <3>2. seqs'[Mine(v)] = seqs[Mine(v)]
        BY <1>3, <1>5, <2>1, <3>1 DEF StampInv
    <3>3. stamped'[v] = stamped[v]
        BY <2>2 DEF Stamp, StampInv
    <3> QED
        BY <1>7, <3>2, <3>3 DEF StampInv
  <2>3. CASE v = w
    <3>1. stamped'[w] = stamped[w] + 1
        BY DEF Stamp, StampInv
    <3>2. CASE i = stamped[w]
        BY <1>2, <1>3, <1>5, <2>3, <3>2 DEF StampInv
    <3>3. CASE i # stamped[w]
      <4>1. i < stamped[w]
          BY <1>2, <1>7, <2>3, <3>1, <3>3 DEF Records
      <4>2. seqs'[Mine(w)][i] = seqs[Mine(w)][i]
          BY <1>2, <1>3, <1>5, <3>3 DEF StampInv
      <4> QED
          BY <1>2, <2>3, <4>1, <4>2 DEF StampInv
    <3> QED
        BY <3>2, <3>3
  <2> QED
      BY <2>2, <2>3
<1>8. \A v \in Callers : v # w => stamped'[v] = stamped[v]
    BY DEF Stamp, StampInv
<1> QED
    BY <1>1, <1>2, <1>6, <1>7, <1>8 DEF StampInv, Mine

\* The worker asks for its token when the template is stamped.
LEMMA AskStamp ==
  ASSUME StampInv, NEW w \in Callers, AskToken(w)
  PROVE  StampInv'
<1>1. UNCHANGED <<taken, item, message, seqs, stamped>> /\ wpc' = [wpc EXCEPT ![w] = "token"]
    BY DEF AskToken, Go, batchVars
<1>2. wpc[w] = "stamp" /\ stamped[w] = Batch
    BY DEF AskToken
<1>3. \A v \in Callers : Mine(v)' = Mine(v)
    BY <1>1 DEF Mine
<1> QED
    BY <1>1, <1>2, <1>3, PoolAssumption DEF StampInv

\* The request is a copy of the template, which holds the whole batch.
LEMMA CallStamp ==
  ASSUME StampInv, NEW w \in Callers, Call(w)
  PROVE  StampInv'
<1>1. UNCHANGED <<taken, item, seqs>> /\ wpc' = [wpc EXCEPT ![w] = "flight"]
      /\ stamped' = [stamped EXCEPT ![w] = 0]
      /\ message' = [message EXCEPT ![w] = seqs[Mine(w)]]
    BY DEF Call, Go, Mine
<1>2. wpc[w] = "token" /\ item[w] \in Nat /\ stamped[w] = Batch
    BY DEF Call, StampInv
<1>3. Mine(w) \in Templates
    BY <1>2, SliceInPool, PoolAssumption DEF Mine, VariantOf
<1>4. \A i \in Records : seqs[Mine(w)][i] = item[w] * Batch + i
    BY <1>2, PoolAssumption DEF StampInv, Records
<1>5. seqs[Mine(w)] = SeqsOf(item[w])
    BY <1>3, <1>4 DEF StampInv, SeqsOf
<1>6. \A v \in Callers : Mine(v)' = Mine(v)
    BY <1>1 DEF Mine
<1> QED
    BY <1>1, <1>2, <1>5, <1>6, PoolAssumption DEF StampInv

\* The end of an export leaves nothing behind.
LEMMA ReturnStamp ==
  ASSUME StampInv, NEW w \in Callers, Return(w) \/ Raise(w)
  PROVE  StampInv'
<1>1. UNCHANGED <<taken, seqs, stamped>> /\ wpc[w] = "flight"
      /\ message' = [message EXCEPT ![w] = None] /\ item' = [item EXCEPT ![w] = None]
    BY DEF Return, Raise
<1>2. \E l \in {"get", "pause"} : wpc' = [wpc EXCEPT ![w] = l]
    BY DEF Return, Raise, Outcome, Go
<1>3. \A v \in Callers : v # w => wpc'[v] = wpc[v] /\ item'[v] = item[v] /\ Mine(v)' = Mine(v)
    BY <1>1, <1>2 DEF Mine, StampInv
<1> QED
    BY <1>1, <1>2, <1>3, PoolAssumption DEF StampInv

\* The invariant is inductive.
LEMMA StampStep ==
  ASSUME StampInv, [Next]_vars
  PROVE  StampInv'
<1>1. CASE UNCHANGED <<seqs, taken, wpc, item, stamped, message>>
  <2>1. \A v \in Callers : Mine(v)' = Mine(v)
      BY <1>1 DEF Mine
  <2> QED
      BY <1>1, <2>1 DEF StampInv
<1>2. CASE \/ Feed \/ Offer \/ StopEngine \/ StopSampling
           \/ Reporting \/ TimePasses \/ UNCHANGED vars
    BY <1>1, <1>2 DEF Feed, Offer, StopEngine, StopSampling, Reporting, TimePasses,
                      batchVars, vars
<1>3. ASSUME NEW w \in Callers, Resume(w) \/ End(w)
      PROVE  StampInv'
  <2>1. UNCHANGED <<taken, item, message, seqs, stamped>> /\ wpc[w] \in {"get", "pause"}
        /\ \E l \in {"get", "ended"} : wpc' = [wpc EXCEPT ![w] = l]
      BY <1>3 DEF Resume, End, Go, batchVars
  <2>2. \A v \in Callers : Mine(v)' = Mine(v)
      BY <2>1 DEF Mine
  <2> QED
      BY <2>1, <2>2 DEF StampInv
<1> QED
    BY <1>2, <1>3, TakeStamp, StampStamp, AskStamp, CallStamp, ReturnStamp
    DEF Next, Worker

\* For every pool and batch size, under every interleaving: a request carries
\* the sequence numbers of its own batch and of no other.
THEOREM MessagesStayWhole == Spec => []MessageIsItsBatch
<1>1. StampInv => MessageIsItsBatch
    BY DEF StampInv, MessageIsItsBatch
<1>2. StampInv /\ [Next]_vars => StampInv'
    BY StampStep
<1> QED
    BY <1>1, <1>2, StampStart, PTL DEF Spec

-----------------------------------------------------------------------------
(* Customers                                                               *)

\* The templates cover the customers exactly when there are enough of them.
LEMMA CoverageIsExact ==
  ASSUME customers \in Nat \ {0}
  PROVE  CustomersCovered = 1..customers <=> ~CoverageWarning
<1> DEFINE n == Workers * Variants
<1>1. n \in Nat /\ Templates = 0..n - 1 /\ (CoverageWarning <=> n < customers)
    BY PoolAssumption DEF Templates, CoverageWarning
<1> HIDE DEF n
<1>2. \A t \in Nat : CustomerOf(t) \in 1..customers /\ (t < customers => CustomerOf(t) = t + 1)
    BY DEF CustomerOf
<1>3. CASE n >= customers
  <2>1. ASSUME NEW k \in 1..customers PROVE k \in CustomersCovered
    <3>1. k - 1 \in Templates /\ CustomerOf(k - 1) = k
        BY <1>1, <1>2, <1>3
    <3> QED
        BY <3>1 DEF CustomersCovered
  <2>2. CustomersCovered \subseteq 1..customers
    <3>1. Templates \subseteq Nat
        BY <1>1
    <3> QED
        BY <1>2, <3>1 DEF CustomersCovered
  <2>3. CustomersCovered = 1..customers
      BY <2>1, <2>2, Zenon
  <2>4. ~CoverageWarning
      BY <1>1, <1>3
  <2> QED
      BY <2>3, <2>4
<1>4. CASE n < customers
  <2>1. \A t \in Templates : CustomerOf(t) # customers
      BY <1>1, <1>2, <1>4
  <2>2. customers \notin CustomersCovered /\ customers \in 1..customers
      BY <2>1 DEF CustomersCovered
  <2> QED
      BY <1>1, <1>4, <2>2
<1> QED
    BY <1>1, <1>3, <1>4

\* For every pool and customer count: a run starts exactly when the pool has a
\* template for every customer.
THEOREM RunsAreCovered == Spec => []RunsWhenCovered
<1> DEFINE Inv == customers \in Nat \ {0} /\ (mpc # "refused" <=> ~CoverageWarning)
<1>1. Init => Inv
    BY PoolAssumption DEF Init
<1>2. Inv /\ [Next]_vars => Inv'
  <2> SUFFICES ASSUME Inv, [Next]_vars PROVE Inv'
      OBVIOUS
  <2>1. customers' = customers
      BY DEF Next, vars
  <2>2. (mpc' = "refused") <=> (mpc = "refused")
      BY DEF Next, vars, Feed, Offer, StopEngine, StopSampling, StopSampler, Worker, Take,
             Stamp, AskToken, Call, Return, Raise, Resume, End, Reporting, TimePasses,
             Sampler, SamplerLooks, SamplerStops, SamplerSwaps, SamplerWrites,
             SamplerFails, Finish, Join, MainSwaps, MainWrites, MainCloses, Snapshot, Files
  <2> QED
      BY <2>1, <2>2 DEF CoverageWarning
<1>3. Inv => RunsWhenCovered
    BY CoverageIsExact DEF RunsWhenCovered
<1> QED
    BY <1>1, <1>2, <1>3, PTL DEF Spec

-----------------------------------------------------------------------------
(* Percentiles                                                             *)

\* For every number of values: what percentile() reads is the nearest rank or
\* the one above it.
THEOREM PercentileBound ==
  \A n \in Nat : \A permille \in {500, 950, 990} : n > 1 => NearRank(permille, n)
<1> SUFFICES ASSUME NEW n \in Nat, NEW permille \in {500, 950, 990}, n > 1
             PROVE  NearRank(permille, n)
    OBVIOUS
<1>1. CASE permille = 500
    BY <1>1 DEF NearRank, PercentileRank, RoundThousandths, AtLeast1AtMost
<1>2. CASE permille = 950
    BY <1>2 DEF NearRank, PercentileRank, RoundThousandths, AtLeast1AtMost
<1>3. CASE permille = 990
    BY <1>3 DEF NearRank, PercentileRank, RoundThousandths, AtLeast1AtMost
<1> QED
    BY <1>1, <1>2, <1>3

-----------------------------------------------------------------------------
(* The books                                                               *)

Threads  == {"sampler", "main"}
CountsOf == [Counters -> Nat]
Early    == {"pace", "offer", "joinWorkers", "join"}

BookTypes ==
  /\ totals \in CountsOf /\ window \in CountsOf /\ snapshot \in CountsOf
  /\ hand \in [Threads -> [rows : CountsOf, cum : CountsOf]]
  /\ files \in [Files -> [rows : CountsOf, cum : CountsOf, open : BOOLEAN]]
  /\ lost \in [Files -> CountsOf]
  /\ joined \in BOOLEAN /\ Batch \in Nat
  /\ spc \in {"loop", "wait", "jsonl", "csv", "ended"}

\* EachCountOnce, counter by counter.
Balanced ==
  \A f \in Files, c \in Counters :
    totals[c] = files[f].rows[c] + lost[f][c] + window[c]
                + InHand(spc, "sampler", f)[c] + InHand(mpc, "main", f)[c]

BookInv == BookTypes /\ Balanced

\* Sums of counts are counts, counter by counter.
LEMMA PlusCounts ==
  \A a, b \in CountsOf : /\ Plus(a, b) \in CountsOf
                          /\ \A c \in Counters : Plus(a, b)[c] = a[c] + b[c]
BY DEF Plus, CountsOf

\* Counts are the same when they are so counter by counter.
LEMMA CountsEqual ==
  ASSUME NEW a \in CountsOf, NEW b \in CountsOf
  PROVE  a = b <=> \A c \in Counters : a[c] = b[c]
BY DEF CountsOf

\* An empty row counts nothing.
LEMMA ZeroCounts == Zero \in CountsOf /\ \A c \in Counters : Zero[c] = 0
BY DEF Zero, CountsOf

\* What a thread holds of a row is a row.
LEMMA InHandCounts ==
  ASSUME BookTypes, NEW t \in Threads, NEW f \in Files, NEW p
  PROVE  InHand(p, t, f) \in CountsOf
BY ZeroCounts DEF InHand, BookTypes

\* The two ways to say it agree.
LEMMA BalancedIsOnce == BookTypes => (Balanced <=> EachCountOnce)
<1> SUFFICES ASSUME BookTypes PROVE Balanced <=> EachCountOnce
    OBVIOUS
<1> DEFINE S(f) == InHand(spc, "sampler", f)
           M(f) == InHand(mpc, "main", f)
           R(f) == Plus(Plus(files[f].rows, lost[f]), Plus(window, Plus(S(f), M(f))))
<1>1. ASSUME NEW f \in Files
      PROVE  /\ R(f) \in CountsOf
             /\ \A c \in Counters : R(f)[c] = files[f].rows[c] + lost[f][c] + window[c]
                                              + S(f)[c] + M(f)[c]
  <2>1. S(f) \in CountsOf /\ M(f) \in CountsOf
      BY InHandCounts DEF Threads
  <2>2. files[f].rows \in CountsOf /\ lost[f] \in CountsOf /\ window \in CountsOf
      BY DEF BookTypes
  <2> HIDE DEF S, M
  <2>3. Plus(S(f), M(f)) \in CountsOf /\ Plus(files[f].rows, lost[f]) \in CountsOf
      BY <2>1, <2>2, PlusCounts
  <2>4. Plus(window, Plus(S(f), M(f))) \in CountsOf
      BY <2>2, <2>3, PlusCounts
  <2>5. R(f) \in CountsOf
      BY <2>3, <2>4, PlusCounts
  <2>6. ASSUME NEW c \in Counters
        PROVE  R(f)[c] = files[f].rows[c] + lost[f][c] + window[c] + S(f)[c] + M(f)[c]
    <3>1. R(f)[c] = (files[f].rows[c] + lost[f][c]) + (window[c] + (S(f)[c] + M(f)[c]))
        BY <2>1, <2>2, <2>3, <2>4, PlusCounts
    <3> QED
        BY <3>1, <2>1, <2>2 DEF CountsOf
  <2> QED
      BY <2>5, <2>6
<1>2. totals \in CountsOf
    BY DEF BookTypes
<1>3. EachCountOnce <=> \A f \in Files : totals = R(f)
    BY DEF EachCountOnce
<1>4. Balanced <=> \A f \in Files : \A c \in Counters :
        totals[c] = files[f].rows[c] + lost[f][c] + window[c] + S(f)[c] + M(f)[c]
    BY DEF Balanced
<1> HIDE DEF R, S, M
<1>5. \A f \in Files : totals = R(f) <=> \A c \in Counters : totals[c] = R(f)[c]
    BY <1>1, <1>2, CountsEqual
<1> QED
    BY <1>1, <1>3, <1>4, <1>5

\* All counts are zero at the start.
LEMMA BookStart == Init => BookInv
<1> SUFFICES ASSUME Init PROVE BookInv
    OBVIOUS
<1>1. BookTypes
    BY PoolAssumption, ZeroCounts DEF Init, MetricsInit, BookTypes, NoRow, Threads
<1>2. \A f \in Files : InHand(spc, "sampler", f) = Zero /\ InHand(mpc, "main", f) = Zero
    BY DEF Init, InHand
<1>3. \A f \in Files, c \in Counters :
        totals[c] = 0 /\ window[c] = 0 /\ files[f].rows[c] = 0 /\ lost[f][c] = 0
    BY ZeroCounts DEF Init, MetricsInit
<1>4. Balanced
    BY <1>2, <1>3, ZeroCounts DEF Balanced
<1> QED
    BY <1>1, <1>4 DEF BookInv

\* A record_* method adds the same to the totals and to the window.
LEMMA RecordBooks ==
  ASSUME BookInv, NEW by, Bump(by) \in CountsOf, Record(by),
         \A f \in Files : InHand(mpc, "main", f)' = InHand(mpc, "main", f)
  PROVE  BookInv'
<1>1. totals' = Plus(totals, Bump(by)) /\ window' = Plus(window, Bump(by))
      /\ UNCHANGED <<spc, hand, files, lost, joined, snapshot>>
    BY DEF Record
<1>2. totals' \in CountsOf /\ window' \in CountsOf
    BY <1>1, PlusCounts DEF BookInv, BookTypes
<1>3. \A c \in Counters : /\ totals'[c] = totals[c] + Bump(by)[c]
                          /\ window'[c] = window[c] + Bump(by)[c]
    BY <1>1, PlusCounts DEF BookInv, BookTypes
<1>4. BookTypes'
    BY <1>1, <1>2 DEF BookInv, BookTypes
<1>5. ASSUME NEW f \in Files, NEW c \in Counters
      PROVE  totals'[c] = files'[f].rows[c] + lost'[f][c] + window'[c]
               + InHand(spc, "sampler", f)'[c] + InHand(mpc, "main", f)'[c]
  <2>1. InHand(spc, "sampler", f)' = InHand(spc, "sampler", f)
      BY <1>1 DEF InHand
  <2>2. InHand(spc, "sampler", f) \in CountsOf /\ InHand(mpc, "main", f) \in CountsOf
      BY InHandCounts DEF BookInv, Threads
  <2>3. files[f].rows[c] \in Int /\ lost[f][c] \in Int /\ window[c] \in Int
        /\ Bump(by)[c] \in Int /\ InHand(spc, "sampler", f)[c] \in Int
        /\ InHand(mpc, "main", f)[c] \in Int
      BY <2>2 DEF BookInv, BookTypes, CountsOf
  <2>4. totals[c] = files[f].rows[c] + lost[f][c] + window[c]
                + InHand(spc, "sampler", f)[c] + InHand(mpc, "main", f)[c]
      BY DEF BookInv, Balanced
  <2> QED
      BY <1>1, <1>3, <2>1, <2>3, <2>4
<1> QED
    BY <1>4, <1>5 DEF BookInv, Balanced

\* A step that moves no count keeps the balance.
LEMMA IdleBooks ==
  ASSUME BookInv, BookTypes', UNCHANGED <<totals, window, lost>>,
         \A f \in Files : /\ files'[f].rows = files[f].rows
                          /\ InHand(spc, "sampler", f)' = InHand(spc, "sampler", f)
                          /\ InHand(mpc, "main", f)' = InHand(mpc, "main", f)
  PROVE  BookInv'
BY DEF BookInv, Balanced

\* Under the lock a thread takes the window into its hands.
LEMMA SwapBooks ==
  ASSUME BookInv, NEW t \in Threads, Swap(t),
         UNCHANGED <<totals, files, lost, joined, snapshot>>,
         \/ /\ t = "sampler" /\ mpc' = mpc
            /\ spc \notin {"jsonl", "csv"} /\ spc' = "jsonl"
         \/ /\ t = "main" /\ spc' = spc
            /\ mpc \notin {"jsonl", "csv"} /\ mpc' = "jsonl"
  PROVE  BookInv'
<1>1. hand' = [hand EXCEPT ![t] = [rows |-> window, cum |-> totals]] /\ window' = Zero
    BY DEF Swap
<1>2. BookTypes'
    BY <1>1, ZeroCounts DEF BookInv, BookTypes
<1>3. ASSUME NEW f \in Files, NEW c \in Counters
      PROVE  window[c] + InHand(spc, "sampler", f)[c] + InHand(mpc, "main", f)[c] =
               window'[c] + (InHand(spc, "sampler", f)')[c] + (InHand(mpc, "main", f)')[c]
  <2>1. hand'[t].rows = window /\ \A u \in Threads : u # t => hand'[u] = hand[u]
      BY <1>1 DEF BookInv, BookTypes
  <2>2. window[c] \in Nat /\ window'[c] = 0 /\ Zero[c] = 0
        /\ InHand(spc, "sampler", f)[c] \in Nat /\ InHand(mpc, "main", f)[c] \in Nat
      BY <1>1, ZeroCounts, InHandCounts DEF BookInv, BookTypes, Threads, CountsOf
  <2>3. CASE t = "sampler" /\ mpc' = mpc /\ spc \notin {"jsonl", "csv"} /\ spc' = "jsonl"
    <3>1. InHand(spc, "sampler", f) = Zero /\ InHand(spc, "sampler", f)' = window
          /\ InHand(mpc, "main", f)' = InHand(mpc, "main", f)
        BY <2>1, <2>3 DEF InHand, Threads
    <3> QED
        BY <2>2, <3>1
  <2>4. CASE t = "main" /\ spc' = spc /\ mpc \notin {"jsonl", "csv"} /\ mpc' = "jsonl"
    <3>1. InHand(mpc, "main", f) = Zero /\ InHand(mpc, "main", f)' = window
          /\ InHand(spc, "sampler", f)' = InHand(spc, "sampler", f)
        BY <2>1, <2>4 DEF InHand, Threads
    <3> QED
        BY <2>2, <3>1
  <2> QED
      BY <2>3, <2>4
<1>4. ASSUME NEW f \in Files, NEW c \in Counters
      PROVE  totals'[c] = files'[f].rows[c] + lost'[f][c] + window'[c]
               + (InHand(spc, "sampler", f)')[c] + (InHand(mpc, "main", f)')[c]
  <2>1. InHand(spc, "sampler", f)' \in CountsOf /\ InHand(mpc, "main", f)' \in CountsOf
      BY <1>2, ZeroCounts DEF InHand, BookTypes, Threads
  <2>2. InHand(spc, "sampler", f) \in CountsOf /\ InHand(mpc, "main", f) \in CountsOf
      BY InHandCounts DEF BookInv, Threads
  <2>3. files[f].rows[c] \in Nat /\ lost[f][c] \in Nat /\ window[c] \in Nat /\ window'[c] \in Nat
      BY <1>2 DEF BookInv, BookTypes, CountsOf
  <2>4. totals[c] = files[f].rows[c] + lost[f][c] + window[c]
                + InHand(spc, "sampler", f)[c] + InHand(mpc, "main", f)[c]
      BY DEF BookInv, Balanced
  <2> HIDE DEF InHand
  <2> QED
      BY <1>3, <2>1, <2>2, <2>3, <2>4 DEF CountsOf
<1> QED
    BY <1>2, <1>4 DEF BookInv, Balanced

\* A row goes from a thread's hands into file g, or is lost to it; once it is
\* in both files the thread has let go of it.
LEMMA WriteBooks ==
  ASSUME BookInv, NEW t \in Threads, BookTypes', UNCHANGED <<totals, window>>,
         NEW p, NEW q,
         \/ t = "sampler" /\ spc = p /\ spc' = q /\ mpc' = mpc
         \/ t = "main" /\ mpc = p /\ mpc' = q /\ spc' = spc,
         \A u \in Threads : u # t => hand'[u] = hand[u],
         hand'[t] = hand[t] \/ q \notin {"jsonl", "csv"},
         \A f \in Files :
           IF p = f \/ (p = "jsonl" /\ q \notin {"jsonl", "csv"})
           THEN /\ InHand(q, t, f)' = Zero
                /\ \/ /\ files'[f].rows = Plus(files[f].rows, hand[t].rows)
                      /\ lost'[f] = lost[f]
                   \/ /\ lost'[f] = Plus(lost[f], hand[t].rows)
                      /\ files'[f].rows = files[f].rows
           ELSE /\ InHand(q, t, f)' = InHand(p, t, f)
                /\ files'[f].rows = files[f].rows /\ lost'[f] = lost[f],
         p \in Files
  PROVE  BookInv'
<1>1. ASSUME NEW f \in Files, NEW c \in Counters
      PROVE  files[f].rows[c] + lost[f][c] + InHand(p, t, f)[c] =
               files'[f].rows[c] + lost'[f][c] + (InHand(q, t, f)')[c]
  <2>1. files[f].rows \in CountsOf /\ lost[f] \in CountsOf /\ hand[t].rows \in CountsOf
      BY DEF BookInv, BookTypes
  <2>2. CASE p = f \/ (p = "jsonl" /\ q \notin {"jsonl", "csv"})
    <3>1. InHand(p, t, f) = hand[t].rows /\ InHand(q, t, f)' = Zero
        BY <2>2 DEF InHand, Files
    <3>2. /\ Plus(files[f].rows, hand[t].rows)[c] = files[f].rows[c] + hand[t].rows[c]
          /\ Plus(lost[f], hand[t].rows)[c] = lost[f][c] + hand[t].rows[c]
        BY <2>1, PlusCounts
    <3>3. files[f].rows[c] \in Nat /\ lost[f][c] \in Nat /\ hand[t].rows[c] \in Nat
        BY <2>1 DEF CountsOf
    <3> QED
        BY <2>2, <3>1, <3>2, <3>3, ZeroCounts
  <2> QED
      BY <2>2
<1>2. ASSUME NEW f \in Files, NEW c \in Counters
      PROVE  totals'[c] = files'[f].rows[c] + lost'[f][c] + window'[c]
               + (InHand(spc, "sampler", f)')[c] + (InHand(mpc, "main", f)')[c]
  <2>1. InHand(spc, "sampler", f)' \in CountsOf /\ InHand(mpc, "main", f)' \in CountsOf
      BY ZeroCounts DEF InHand, BookTypes, Threads
  <2>2. InHand(spc, "sampler", f) \in CountsOf /\ InHand(mpc, "main", f) \in CountsOf
      BY InHandCounts DEF BookInv, Threads
  <2>3. files[f].rows[c] \in Nat /\ lost[f][c] \in Nat /\ window[c] \in Nat
        /\ files'[f].rows[c] \in Nat /\ lost'[f][c] \in Nat
      BY DEF BookInv, BookTypes, CountsOf
  <2>4. totals[c] = files[f].rows[c] + lost[f][c] + window[c]
                + InHand(spc, "sampler", f)[c] + InHand(mpc, "main", f)[c]
      BY DEF BookInv, Balanced
  <2>5. CASE t = "sampler" /\ spc = p /\ spc' = q /\ mpc' = mpc
    <3>1. InHand(mpc, "main", f)' = InHand(mpc, "main", f)
        BY <2>5 DEF InHand, Threads
    <3> QED
        BY <1>1, <2>1, <2>2, <2>3, <2>4, <2>5, <3>1 DEF CountsOf
  <2>6. CASE t = "main" /\ mpc = p /\ mpc' = q /\ spc' = spc
    <3>1. InHand(spc, "sampler", f)' = InHand(spc, "sampler", f)
        BY <2>6 DEF InHand, Threads
    <3> QED
        BY <1>1, <2>1, <2>2, <2>3, <2>4, <2>6, <3>1 DEF CountsOf
  <2> QED
      BY <2>5, <2>6
<1> QED
    BY <1>2 DEF BookInv, Balanced

\* What the record_* methods add are counts.
LEMMA BumpCounts ==
  ASSUME Batch \in Nat
  PROVE  /\ Bump([offered |-> Batch]) \in CountsOf
         /\ Bump([accepted |-> Batch, requests |-> 1]) \in CountsOf
         /\ Bump([rejected |-> Batch, requests |-> 1]) \in CountsOf
         /\ Bump([requests |-> 1]) \in CountsOf
BY DEF Bump, CountsOf, Counters

\* The steps of the workers and of the pacer.
LEMMA WorkBooks ==
  ASSUME BookInv,
         \/ Feed \/ Offer \/ StopEngine \/ StopSampling
         \/ (\E w \in Callers : Worker(w))
         \/ TimePasses
  PROVE  BookInv'
<1>1. ASSUME UNCHANGED metricsVars,
             mpc' = mpc \/ (mpc \notin {"jsonl", "csv"} /\ mpc' \notin {"jsonl", "csv"})
      PROVE  BookInv'
  <2>1. BookTypes'
      BY <1>1 DEF BookInv, BookTypes, metricsVars
  <2>2. \A f \in Files : /\ InHand(spc, "sampler", f)' = InHand(spc, "sampler", f)
                         /\ InHand(mpc, "main", f)' = InHand(mpc, "main", f)
      BY <1>1 DEF InHand, metricsVars, Files
  <2> QED
      BY <1>1, <2>1, <2>2, IdleBooks DEF metricsVars
<1>2. CASE Feed \/ StopEngine \/ StopSampling \/ TimePasses
    BY <1>1, <1>2 DEF Feed, StopEngine, StopSampling, StopSampler, TimePasses
<1>3. ASSUME mpc' = mpc \/ (mpc = "offer" /\ mpc' = "pace"), UNCHANGED hand
      PROVE  \A f \in Files : InHand(mpc, "main", f)' = InHand(mpc, "main", f)
    BY <1>3 DEF InHand, Files
<1>4. CASE Offer
  <2>1. Record([offered |-> Batch]) /\ Bump([offered |-> Batch]) \in CountsOf
      BY <1>4, BumpCounts DEF Offer, RecordOffered, BookInv, BookTypes
  <2>2. \A f \in Files : InHand(mpc, "main", f)' = InHand(mpc, "main", f)
      BY <1>3, <1>4, <2>1 DEF Offer, Record
  <2> QED
      BY <2>1, <2>2, RecordBooks
<1>5. ASSUME NEW w \in Callers, Worker(w)
      PROVE  BookInv'
  <2>1. CASE Take(w) \/ Stamp(w) \/ AskToken(w) \/ Call(w) \/ Raise(w) \/ Resume(w) \/ End(w)
      BY <1>1, <2>1 DEF Take, Stamp, AskToken, Call, Raise, Resume, End
  <2>2. CASE Return(w)
    <3>1. \E by \in {[accepted |-> Batch, requests |-> 1], [rejected |-> Batch, requests |-> 1],
                     [requests |-> 1]} : Record(by) /\ Bump(by) \in CountsOf
        BY <2>2, BumpCounts
        DEF Return, Outcome, RecordAccepted, RecordRejected, RecordFailed, BookInv, BookTypes
    <3>2. \A f \in Files : InHand(mpc, "main", f)' = InHand(mpc, "main", f)
        BY <1>3, <2>2, <3>1 DEF Return, Record
    <3> QED
        BY <3>1, <3>2, RecordBooks
  <2> QED
      BY <1>5, <2>1, <2>2 DEF Worker
<1> QED
    BY <1>2, <1>4, <1>5

\* The steps of the sampler thread.
LEMMA SamplerBooks ==
  ASSUME BookInv, Sampler
  PROVE  BookInv'
<1>1. CASE SamplerLooks \/ SamplerStops
  <2>1. spc \in {"loop", "wait"} /\ spc' \in {"ended", "wait"}
        /\ UNCHANGED <<mpc, totals, window, hand, files, lost, joined, snapshot>>
      BY <1>1 DEF SamplerLooks, SamplerStops
  <2>2. BookTypes'
      BY <2>1 DEF BookInv, BookTypes
  <2>3. \A f \in Files : /\ InHand(spc, "sampler", f)' = InHand(spc, "sampler", f)
                         /\ InHand(mpc, "main", f)' = InHand(mpc, "main", f)
      BY <2>1 DEF InHand, Files
  <2> QED
      BY <2>1, <2>2, <2>3, IdleBooks
<1>2. CASE SamplerSwaps
    BY <1>2, SwapBooks DEF SamplerSwaps, Threads
<1>3. ASSUME NEW f \in Files, SamplerWrites(f) PROVE BookInv'
  <2>1. PICK q \in {"csv", "loop"} :
          /\ spc = f /\ spc' = q /\ q = IF f = "jsonl" THEN "csv" ELSE "loop"
          /\ hand' = IF q = "csv" THEN hand ELSE [hand EXCEPT !["sampler"] = NoRow]
          /\ files' = [files EXCEPT ![f].rows = Plus(@, hand["sampler"].rows),
                                   ![f].cum = hand["sampler"].cum]
          /\ UNCHANGED <<mpc, totals, window, lost, joined, snapshot>>
      BY <1>3 DEF SamplerWrites, WriteRow, DropRow, Files
  <2>2. Plus(files[f].rows, hand["sampler"].rows) \in CountsOf
      BY PlusCounts DEF BookInv, BookTypes, Threads
  <2>3. \A g \in Files : g # f => files'[g] = files[g]
      BY <2>1 DEF BookInv, BookTypes
  <2>4. files'[f].rows = Plus(files[f].rows, hand["sampler"].rows)
      BY <2>1 DEF BookInv, BookTypes
  <2>5. BookTypes'
    <3>1. hand' \in [Threads -> [rows : CountsOf, cum : CountsOf]]
        BY <2>1, ZeroCounts DEF BookInv, BookTypes, NoRow
    <3>2. files' \in [Files -> [rows : CountsOf, cum : CountsOf, open : BOOLEAN]]
        BY <2>1, <2>2 DEF BookInv, BookTypes, Threads
    <3> QED
        BY <2>1, <3>1, <3>2 DEF BookInv, BookTypes
  <2>6. \A g \in Files :
          IF f = g \/ (f = "jsonl" /\ q \notin {"jsonl", "csv"})
          THEN InHand(q, "sampler", g)' = Zero
          ELSE InHand(q, "sampler", g)' = InHand(f, "sampler", g)
      BY <2>1 DEF InHand, Files
  <2>7. \A g \in Files :
          IF f = g \/ (f = "jsonl" /\ q \notin {"jsonl", "csv"})
          THEN /\ InHand(q, "sampler", g)' = Zero
               /\ \/ /\ files'[g].rows = Plus(files[g].rows, hand["sampler"].rows)
                     /\ lost'[g] = lost[g]
                  \/ /\ lost'[g] = Plus(lost[g], hand["sampler"].rows)
                     /\ files'[g].rows = files[g].rows
          ELSE /\ InHand(q, "sampler", g)' = InHand(f, "sampler", g)
               /\ files'[g].rows = files[g].rows /\ lost'[g] = lost[g]
      BY <2>1, <2>3, <2>4, <2>6
  <2>8. \A u \in Threads : u # "sampler" => hand'[u] = hand[u]
      BY <2>1 DEF BookInv, BookTypes
  <2>9. hand'["sampler"] = hand["sampler"] \/ q \notin {"jsonl", "csv"}
      BY <2>1
  <2>10. UNCHANGED <<totals, window>> /\ spc = f /\ spc' = q /\ mpc' = mpc
      BY <2>1
  <2>11. CASE q = "csv"
      BY <2>5, <2>7, <2>8, <2>9, <2>10, <2>11, WriteBooks DEF Threads
  <2>12. CASE q = "loop"
      BY <2>5, <2>7, <2>8, <2>10, <2>12, WriteBooks DEF Threads
  <2> QED
      BY <2>11, <2>12
<1>4. ASSUME NEW f \in Files, SamplerFails(f) PROVE BookInv'
  <2>1. /\ spc = f /\ spc' = "ended"
        /\ hand' = [hand EXCEPT !["sampler"] = NoRow]
        /\ lost' = [g \in Files |-> IF g = f \/ f = "jsonl"
                                   THEN Plus(lost[g], hand["sampler"].rows) ELSE lost[g]]
        /\ UNCHANGED <<mpc, totals, window, files, joined, snapshot>>
      BY <1>4 DEF SamplerFails, DropRow
  <2>2. BookTypes'
      BY <2>1, ZeroCounts, PlusCounts DEF BookInv, BookTypes, NoRow, Threads
  <2>3. \A g \in Files :
          IF f = g \/ (f = "jsonl" /\ "ended" \notin {"jsonl", "csv"})
          THEN /\ InHand("ended", "sampler", g)' = Zero
               /\ lost'[g] = Plus(lost[g], hand["sampler"].rows)
               /\ files'[g].rows = files[g].rows
          ELSE /\ InHand("ended", "sampler", g)' = InHand(f, "sampler", g)
               /\ files'[g].rows = files[g].rows /\ lost'[g] = lost[g]
      BY <2>1 DEF InHand, Files
  <2>4. \A u \in Threads : u # "sampler" => hand'[u] = hand[u]
      BY <2>1 DEF BookInv, BookTypes
  <2> QED
      BY <2>1, <2>2, <2>3, <2>4, WriteBooks DEF Threads
<1> QED
    BY <1>1, <1>2, <1>3, <1>4 DEF Sampler

\* The steps of the main thread in stop_sampler() and snapshot().
LEMMA FinishBooks ==
  ASSUME BookInv, Finish
  PROVE  BookInv'
<1>1. ASSUME UNCHANGED <<totals, window, spc, hand, lost>>, BookTypes',
             \A f \in Files : files'[f].rows = files[f].rows,
             mpc \notin {"jsonl", "csv"}, mpc' \notin {"jsonl", "csv"}
      PROVE  BookInv'
  <2>1. \A f \in Files : /\ InHand(spc, "sampler", f)' = InHand(spc, "sampler", f)
                         /\ InHand(mpc, "main", f)' = InHand(mpc, "main", f)
      BY <1>1 DEF InHand, Files
  <2> QED
      BY <1>1, <2>1, IdleBooks
<1>2. CASE Join \/ Snapshot
  <2>1. BookTypes'
      BY <1>2 DEF Join, Snapshot, BookInv, BookTypes
  <2> QED
      BY <1>1, <1>2, <2>1 DEF Join, Snapshot
<1>3. CASE MainSwaps
    BY <1>3, SwapBooks DEF MainSwaps, Threads
<1>4. ASSUME NEW f \in Files, MainCloses(f) PROVE BookInv'
  <2>1. files' = [files EXCEPT ![f].open = FALSE]
        /\ UNCHANGED <<totals, window, spc, hand, lost, joined, snapshot>>
      BY <1>4 DEF MainCloses
  <2>2. BookTypes' /\ \A g \in Files : files'[g].rows = files[g].rows
      BY <2>1 DEF BookInv, BookTypes
  <2> QED
      BY <1>1, <1>4, <2>1, <2>2 DEF MainCloses
<1>5. ASSUME NEW f \in Files, MainWrites(f) PROVE BookInv'
  <2>1. PICK q \in {"csv", "closeJsonl"} :
          /\ mpc = f /\ mpc' = q /\ q = IF f = "jsonl" THEN "csv" ELSE "closeJsonl"
          /\ hand' = IF q = "csv" THEN hand ELSE [hand EXCEPT !["main"] = NoRow]
          /\ files' = [files EXCEPT ![f].rows = Plus(@, hand["main"].rows),
                                   ![f].cum = hand["main"].cum]
          /\ UNCHANGED <<totals, window, spc, lost, joined, snapshot>>
      BY <1>5 DEF MainWrites, WriteRow, DropRow, Files
  <2>2. Plus(files[f].rows, hand["main"].rows) \in CountsOf
      BY PlusCounts DEF BookInv, BookTypes, Threads
  <2>3. \A g \in Files : g # f => files'[g] = files[g]
      BY <2>1 DEF BookInv, BookTypes
  <2>4. files'[f].rows = Plus(files[f].rows, hand["main"].rows)
      BY <2>1 DEF BookInv, BookTypes
  <2>5. BookTypes'
    <3>1. hand' \in [Threads -> [rows : CountsOf, cum : CountsOf]]
        BY <2>1, ZeroCounts DEF BookInv, BookTypes, NoRow
    <3>2. files' \in [Files -> [rows : CountsOf, cum : CountsOf, open : BOOLEAN]]
        BY <2>1, <2>2 DEF BookInv, BookTypes, Threads
    <3> QED
        BY <2>1, <3>1, <3>2 DEF BookInv, BookTypes
  <2>6. \A g \in Files :
          IF f = g \/ (f = "jsonl" /\ q \notin {"jsonl", "csv"})
          THEN InHand(q, "main", g)' = Zero
          ELSE InHand(q, "main", g)' = InHand(f, "main", g)
      BY <2>1 DEF InHand, Files
  <2>7. \A g \in Files :
          IF f = g \/ (f = "jsonl" /\ q \notin {"jsonl", "csv"})
          THEN /\ InHand(q, "main", g)' = Zero
               /\ \/ /\ files'[g].rows = Plus(files[g].rows, hand["main"].rows)
                     /\ lost'[g] = lost[g]
                  \/ /\ lost'[g] = Plus(lost[g], hand["main"].rows)
                     /\ files'[g].rows = files[g].rows
          ELSE /\ InHand(q, "main", g)' = InHand(f, "main", g)
               /\ files'[g].rows = files[g].rows /\ lost'[g] = lost[g]
      BY <2>1, <2>3, <2>4, <2>6
  <2>8. \A u \in Threads : u # "main" => hand'[u] = hand[u]
      BY <2>1 DEF BookInv, BookTypes
  <2>9. hand'["main"] = hand["main"] \/ q \notin {"jsonl", "csv"}
      BY <2>1
  <2>10. UNCHANGED <<totals, window>> /\ mpc = f /\ mpc' = q /\ spc' = spc
      BY <2>1
  <2>11. CASE q = "csv"
      BY <2>5, <2>7, <2>8, <2>9, <2>10, <2>11, WriteBooks DEF Threads
  <2>12. CASE q = "closeJsonl"
      BY <2>5, <2>7, <2>8, <2>10, <2>12, WriteBooks DEF Threads
  <2> QED
      BY <2>11, <2>12
<1> QED
    BY <1>2, <1>3, <1>4, <1>5 DEF Finish

\* The balance is inductive.
LEMMA BookStep ==
  ASSUME BookInv, [Next]_vars
  PROVE  BookInv'
<1>1. CASE UNCHANGED vars
  <2>1. UNCHANGED metricsVars /\ mpc' = mpc
      BY <1>1 DEF vars
  <2>2. BookTypes'
      BY <2>1 DEF BookInv, BookTypes, metricsVars
  <2>3. \A f \in Files : /\ InHand(spc, "sampler", f)' = InHand(spc, "sampler", f)
                         /\ InHand(mpc, "main", f)' = InHand(mpc, "main", f)
      BY <2>1 DEF InHand, metricsVars
  <2> QED
      BY <2>1, <2>2, <2>3, IdleBooks DEF metricsVars
<1> QED
    BY <1>1, WorkBooks, SamplerBooks, FinishBooks DEF Next, Reporting

\* The balance holds in every state of a run.
LEMMA BookAlways == Spec => []BookInv
BY BookStart, BookStep, PTL DEF Spec

\* For every run, however workers, sampler and main thread interleave and
\* whatever the sampler fails to write: each count is in exactly one place.
THEOREM CountsAreOnce == Spec => []EachCountOnce
<1>1. BookInv => EachCountOnce
    BY BalancedIsOnce DEF BookInv
<1> QED
    BY <1>1, BookAlways, PTL

\* For every row: its percentiles are the nearest rank or one above.
THEOREM PercentilesAreNear == Spec => []PercentileIsNear
<1>1. BookInv => PercentileIsNear
  <2> SUFFICES ASSUME BookInv, NEW t \in Threads, NEW permille \in {500, 950, 990},
                      hand[t].rows.requests > 1
               PROVE  NearRank(permille, hand[t].rows.requests)
      BY DEF PercentileIsNear, Threads
  <2>1. hand[t].rows["requests"] \in Nat
      BY DEF BookInv, BookTypes, CountsOf, Counters
  <2> QED
      BY <2>1, PercentileBound
<1> QED
    BY <1>1, BookAlways, PTL

-----------------------------------------------------------------------------
(* The reports                                                             *)

Joining == {"swap", "jsonl", "csv", "closeJsonl", "closeCsv", "snapshot", "exit"}

\* The cumulative columns of a row still to be written are the sums of the
\* file with that row in it.
Continues(t, pcv, f) ==
  pcv = "jsonl" \/ (pcv = "csv" /\ f = "csv") =>
    hand[t].cum = Plus(files[f].rows, hand[t].rows)

InOrder ==
  \A f \in Files :
    /\ lost[f] = Zero /\ files[f].cum = files[f].rows
    /\ Continues("sampler", spc, f) /\ Continues("main", mpc, f)

\* Rows are written in order while the main thread does not write, and later
\* if the sampler had ended; with the workers ended too nothing is booked
\* behind the last row.
OrderInv ==
  /\ mpc \in {"refused"} \cup Early \cup Joining
  /\ mpc \in Early => \A f \in Files : files[f].open
  /\ joined => spc = "ended" /\ mpc \in Joining
  /\ mpc = "refused" => spc = "ended"
  /\ joined \/ mpc \in Early => InOrder
  /\ quiet => mpc \in {"join"} \cup Joining /\ \A w \in Callers : wpc[w] = "ended"
  /\ quiet /\ joined /\ mpc # "swap" => window = Zero
  /\ mpc = "exit" /\ quiet /\ joined => snapshot = totals

ReportInv == BookInv /\ OrderInv

\* Both files are empty at the start.
LEMMA OrderStart == Init => OrderInv
BY DEF Init, MetricsInit, OrderInv, InOrder, Continues, Early, Joining

\* A swap by the only thread that writes continues the sums of both files.
LEMMA SwapContinues ==
  ASSUME ReportInv, InOrder, NEW t \in Threads, Swap(t), UNCHANGED files,
         spc \notin {"jsonl", "csv"}, mpc \notin {"jsonl", "csv"}, NEW f \in Files
  PROVE  hand'[t].cum = Plus(files'[f].rows, hand'[t].rows)
<1>1. hand'[t] = [rows |-> window, cum |-> totals]
    BY DEF Swap, ReportInv, BookInv, BookTypes
<1>2. files[f].rows \in CountsOf /\ window \in CountsOf /\ totals \in CountsOf
    BY DEF ReportInv, BookInv, BookTypes
<1>3. Plus(files[f].rows, window) \in CountsOf
    BY <1>2, PlusCounts
<1>4. ASSUME NEW c \in Counters PROVE totals[c] = Plus(files[f].rows, window)[c]
  <2>1. totals[c] = files[f].rows[c] + lost[f][c] + window[c]
                + InHand(spc, "sampler", f)[c] + InHand(mpc, "main", f)[c]
      BY DEF ReportInv, BookInv, Balanced
  <2>2. InHand(spc, "sampler", f) = Zero /\ InHand(mpc, "main", f) = Zero /\ lost[f] = Zero
      BY DEF InHand, InOrder
  <2>3. files[f].rows[c] \in Nat /\ window[c] \in Nat /\ Zero[c] = 0
      BY <1>2, ZeroCounts DEF CountsOf
  <2>4. Plus(files[f].rows, window)[c] = files[f].rows[c] + window[c]
      BY <1>2, PlusCounts
  <2> QED
      BY <2>1, <2>2, <2>3, <2>4
<1> QED
    BY <1>1, <1>2, <1>3, <1>4, CountsEqual

\* Workers and pacer write no rows, and have ended when the run was quiet.
LEMMA WorkOrder ==
  ASSUME ReportInv,
         \/ Feed \/ Offer \/ StopEngine \/ StopSampling
         \/ (\E w \in Callers : Worker(w))
         \/ TimePasses
  PROVE  OrderInv'
<1> USE DEF ReportInv
<1>1. ASSUME UNCHANGED <<spc, hand, files, lost, joined, snapshot>>,
             mpc' = mpc \/ (mpc \in Early /\ mpc' \in Early)
      PROVE  InOrder => InOrder'
    BY <1>1 DEF InOrder, Continues, Early
<1>2. CASE Feed \/ StopEngine \/ TimePasses
  <2>1. UNCHANGED metricsVars /\ UNCHANGED quiet
        /\ (mpc' = mpc \/ (mpc \in Early /\ mpc' \in Early))
        /\ (mpc' # mpc => mpc \in {"pace"}) /\ wpc' = wpc
      BY <1>2 DEF Feed, StopEngine, TimePasses, Early, batchVars
  <2> QED
      BY <2>1, <1>1 DEF OrderInv, metricsVars, Early, Joining
<1>3. CASE StopSampling
  <2>1. UNCHANGED metricsVars /\ mpc = "joinWorkers" /\ mpc' = "join" /\ wpc' = wpc
        /\ quiet' = (\A w \in Callers : wpc[w] = "ended")
      BY <1>3 DEF StopSampling, StopSampler
  <2> QED
      BY <2>1, <1>1 DEF OrderInv, metricsVars, Early, Joining
<1>4. CASE Offer
  <2>1. UNCHANGED <<spc, hand, files, lost, joined, snapshot, quiet, wpc>>
        /\ mpc = "offer" /\ mpc' = "pace"
      BY <1>4 DEF Offer, RecordOffered, Record, batchVars
  <2> QED
      BY <2>1, <1>1 DEF OrderInv, Early, Joining
<1>5. ASSUME NEW w \in Callers, Worker(w) PROVE OrderInv'
  <2>1. UNCHANGED <<spc, hand, files, lost, joined, snapshot, quiet, mpc>>
      BY <1>5 DEF Worker, Take, Stamp, AskToken, Call, Return, Raise, Resume, End, Outcome,
                  RecordAccepted, RecordRejected, RecordFailed, Record, metricsVars, batchVars
  <2>2. wpc[w] # "ended"
      BY <1>5 DEF Worker, Take, Stamp, AskToken, Call, Return, Raise, Resume, End
  <2>3. ~quiet
      BY <2>2 DEF OrderInv
  <2> QED
      BY <2>1, <2>3, <1>1 DEF OrderInv
<1> QED
    BY <1>2, <1>3, <1>4, <1>5

\* A thread that writes its row leaves sums that agree.
LEMMA WriteOrder ==
  ASSUME ReportInv, InOrder, NEW t \in Threads, NEW f \in Files, WriteRow(t, f),
         hand[t].cum = Plus(files[f].rows, hand[t].rows)
  PROVE  /\ \A g \in Files : files'[g].cum = files'[g].rows /\ files'[g].open = files[g].open
         /\ \A g \in Files : g # f => files'[g] = files[g]
BY DEF WriteRow, InOrder, ReportInv, BookInv, BookTypes

\* The sampler writes in order, and is never cut short, before the join.
LEMMA SamplerOrder ==
  ASSUME ReportInv, Sampler, UNCHANGED <<quiet, wpc>>
  PROVE  OrderInv'
<1> USE DEF ReportInv
<1>1. spc # "ended"
    BY DEF Sampler, SamplerLooks, SamplerStops, SamplerSwaps, SamplerWrites, SamplerFails, Files
<1>2. ~joined /\ mpc # "refused" /\ UNCHANGED <<mpc, joined, totals, snapshot>>
    BY <1>1 DEF OrderInv, Sampler, SamplerLooks, SamplerStops, SamplerSwaps, SamplerWrites,
                SamplerFails
<1>3. (mpc \in Early => InOrder' /\ \A f \in Files : files'[f].open) => OrderInv'
    BY <1>2 DEF OrderInv
<1>4. ASSUME mpc \in Early
      PROVE  InOrder' /\ \A f \in Files : files'[f].open
  <2>1. InOrder /\ (\A f \in Files : files[f].open) /\ mpc \notin {"jsonl", "csv"}
      BY <1>4 DEF OrderInv, Early
  <2>2. CASE SamplerLooks \/ SamplerStops
    <3>1. spc' \notin {"jsonl", "csv"} /\ UNCHANGED <<mpc, hand, files, lost>>
        BY <2>2 DEF SamplerLooks, SamplerStops
    <3> QED
        BY <2>1, <3>1 DEF InOrder, Continues
  <2>3. CASE SamplerSwaps
    <3>1. spc = "wait" /\ Swap("sampler") /\ UNCHANGED <<mpc, files, lost>>
        BY <2>3 DEF SamplerSwaps
    <3>2. \A f \in Files : hand'["sampler"].cum = Plus(files'[f].rows, hand'["sampler"].rows)
        BY <2>1, <3>1, SwapContinues DEF Threads
    <3> QED
        BY <2>1, <3>1, <3>2 DEF InOrder, Continues
  <2>4. ASSUME NEW f \in Files, SamplerWrites(f)
        PROVE  InOrder' /\ \A g \in Files : files'[g].open
    <3>1. spc = f /\ WriteRow("sampler", f) /\ UNCHANGED <<mpc, lost>>
        BY <2>4 DEF SamplerWrites
    <3>2. spc' = (IF f = "jsonl" THEN "csv" ELSE "loop") /\ (f = "jsonl" => hand' = hand)
        BY <2>4 DEF SamplerWrites
    <3>3. hand["sampler"].cum = Plus(files[f].rows, hand["sampler"].rows)
        BY <2>1, <3>1 DEF InOrder, Continues, Files
    <3>4. /\ \A g \in Files : files'[g].cum = files'[g].rows /\ files'[g].open = files[g].open
          /\ \A g \in Files : g # f => files'[g] = files[g]
        BY <2>1, <3>1, <3>3, WriteOrder DEF Threads
    <3>5. ASSUME NEW g \in Files PROVE Continues("sampler", spc, g)'
      <4>1. CASE f = "csv"
          BY <3>2, <4>1 DEF Continues
      <4>2. CASE f = "jsonl" /\ g = "csv"
          BY <2>1, <3>1, <3>2, <3>4, <4>2 DEF InOrder, Continues
      <4>3. CASE f = "jsonl" /\ g = "jsonl"
          BY <3>2, <4>3 DEF Continues
      <4> QED
          BY <4>1, <4>2, <4>3 DEF Files
    <3> QED
        BY <2>1, <3>1, <3>4, <3>5 DEF InOrder, Continues
  <2>5. ASSUME NEW f \in Files, SamplerFails(f) PROVE FALSE
      BY <2>1, <2>5 DEF SamplerFails
  <2> QED
      BY <2>2, <2>3, <2>4, <2>5 DEF Sampler
<1> QED
    BY <1>3, <1>4

\* The main thread writes its row last, if the sampler had ended.
LEMMA FinishOrder ==
  ASSUME ReportInv, Finish, UNCHANGED <<quiet, wpc>>
  PROVE  OrderInv'
<1> USE DEF ReportInv
<1>1. mpc \notin {"pace", "offer", "joinWorkers", "refused"}
    BY DEF Finish, Join, MainSwaps, MainWrites, MainCloses, Snapshot, Files
<1>2. CASE Join
  <2>1. mpc = "join" /\ mpc' = "swap" /\ joined' = (spc = "ended")
        /\ UNCHANGED <<totals, window, spc, hand, files, lost, snapshot>>
      BY <1>2 DEF Join
  <2>2. InOrder'
      BY <2>1 DEF OrderInv, InOrder, Continues, Early
  <2> QED
      BY <2>1, <2>2 DEF OrderInv, Early, Joining
<1>3. CASE MainSwaps
  <2>1. mpc = "swap" /\ mpc' = "jsonl" /\ Swap("main") /\ window' = Zero
        /\ UNCHANGED <<totals, spc, files, lost, joined, snapshot>>
      BY <1>3 DEF MainSwaps, Swap
  <2>2. ASSUME joined PROVE InOrder'
    <3>1. InOrder /\ spc = "ended"
        BY <2>2 DEF OrderInv
    <3>2. \A f \in Files : hand'["main"].cum = Plus(files'[f].rows, hand'["main"].rows)
        BY <2>1, <3>1, SwapContinues DEF Threads
    <3> QED
        BY <2>1, <3>1, <3>2 DEF InOrder, Continues
  <2> QED
      BY <2>1, <2>2 DEF OrderInv, Early, Joining
<1>4. ASSUME NEW f \in Files, MainWrites(f) PROVE OrderInv'
  <2>1. mpc = f /\ WriteRow("main", f) /\ UNCHANGED <<totals, window, spc, lost, joined, snapshot>>
      BY <1>4 DEF MainWrites
  <2>2. mpc' = (IF f = "jsonl" THEN "csv" ELSE "closeJsonl") /\ (f = "jsonl" => hand' = hand)
      BY <1>4 DEF MainWrites
  <2>3. ASSUME joined PROVE InOrder'
    <3>1. InOrder /\ spc = "ended"
        BY <2>3 DEF OrderInv
    <3>2. hand["main"].cum = Plus(files[f].rows, hand["main"].rows)
        BY <2>1, <3>1 DEF InOrder, Continues, Files
    <3>3. /\ \A g \in Files : files'[g].cum = files'[g].rows
          /\ \A g \in Files : g # f => files'[g] = files[g]
        BY <2>1, <3>1, <3>2, WriteOrder DEF Threads
    <3>4. ASSUME NEW g \in Files PROVE Continues("main", mpc, g)'
      <4>1. CASE f = "csv"
          BY <2>2, <4>1 DEF Continues
      <4>2. CASE f = "jsonl" /\ g = "csv"
          BY <2>1, <2>2, <3>1, <3>3, <4>2 DEF InOrder, Continues
      <4>3. CASE f = "jsonl" /\ g = "jsonl"
          BY <2>2, <4>3 DEF Continues
      <4> QED
          BY <4>1, <4>2, <4>3 DEF Files
    <3> QED
        BY <2>1, <3>1, <3>3, <3>4 DEF InOrder, Continues
  <2>4. mpc' \in {"csv", "closeJsonl"} /\ mpc \in {"jsonl", "csv"}
      BY <2>1, <2>2 DEF Files
  <2> QED
      BY <2>1, <2>3, <2>4 DEF OrderInv, Early, Joining
<1>5. ASSUME NEW f \in Files, MainCloses(f) PROVE OrderInv'
  <2>1. mpc \in {"closeJsonl", "closeCsv"} /\ mpc' \in {"closeCsv", "snapshot"}
        /\ files' = [files EXCEPT ![f].open = FALSE]
        /\ UNCHANGED <<totals, window, spc, hand, lost, joined, snapshot>>
      BY <1>5 DEF MainCloses
  <2>2. \A g \in Files : files'[g].rows = files[g].rows /\ files'[g].cum = files[g].cum
      BY <2>1 DEF BookInv, BookTypes
  <2>3. joined => InOrder'
      BY <2>1, <2>2 DEF OrderInv, InOrder, Continues
  <2> QED
      BY <2>1, <2>3 DEF OrderInv, Early, Joining
<1>6. CASE Snapshot
  <2>1. mpc = "snapshot" /\ mpc' = "exit" /\ snapshot' = totals
        /\ UNCHANGED <<totals, window, spc, hand, files, lost, joined>>
      BY <1>6 DEF Snapshot
  <2>2. joined => InOrder'
      BY <2>1 DEF OrderInv, InOrder, Continues
  <2> QED
      BY <2>1, <2>2 DEF OrderInv, Early, Joining
<1> QED
    BY <1>2, <1>3, <1>4, <1>5, <1>6 DEF Finish

\* The order of the rows is inductive.
LEMMA OrderStep ==
  ASSUME ReportInv, [Next]_vars
  PROVE  OrderInv'
<1>1. CASE UNCHANGED vars
    BY <1>1 DEF ReportInv, OrderInv, InOrder, Continues, vars, metricsVars, batchVars
<1>2. CASE Reporting
    BY <1>2, SamplerOrder, FinishOrder DEF Reporting, batchVars
<1> QED
    BY <1>1, <1>2, WorkOrder DEF Next

\* Balance and order hold in every state of a run.
LEMMA ReportAlways == Spec => []ReportInv
<1>1. ReportInv /\ [Next]_vars => ReportInv'
    BY OrderStep, BookStep DEF ReportInv
<1>2. Init => ReportInv
    BY OrderStart, BookStart DEF ReportInv
<1> QED
    BY <1>1, <1>2, PTL DEF Spec

\* For every run that ended in time: both files and the manifest agree.
THEOREM ReportsWillAgree == Spec => []ReportsAgree
<1>1. ReportInv => ReportsAgree
  <2> SUFFICES ASSUME ReportInv, mpc = "exit", joined, quiet, NEW f \in Files
               PROVE  files[f].rows = snapshot /\ files[f].cum = snapshot
      BY DEF ReportsAgree
  <2>1. InOrder /\ window = Zero /\ snapshot = totals /\ spc = "ended"
      BY DEF ReportInv, OrderInv
  <2>2. files[f].rows \in CountsOf /\ totals \in CountsOf
      BY DEF ReportInv, BookInv, BookTypes
  <2>3. ASSUME NEW c \in Counters PROVE totals[c] = files[f].rows[c]
    <3>1. totals[c] = files[f].rows[c] + lost[f][c] + window[c]
                  + InHand(spc, "sampler", f)[c] + InHand(mpc, "main", f)[c]
        BY DEF ReportInv, BookInv, Balanced
    <3>2. InHand(spc, "sampler", f) = Zero /\ InHand(mpc, "main", f) = Zero /\ lost[f] = Zero
        BY <2>1 DEF InHand, InOrder
    <3>3. files[f].rows[c] \in Nat /\ Zero[c] = 0
        BY <2>2, ZeroCounts DEF CountsOf
    <3> QED
        BY <2>1, <3>1, <3>2, <3>3
  <2>4. totals = files[f].rows
      BY <2>2, <2>3, CountsEqual
  <2> QED
      BY <2>1, <2>4 DEF InOrder
<1> QED
    BY <1>1, ReportAlways, PTL

\* For every run, and at every moment before the sampler is given up on: the
\* cumulative columns of the files are the sums of their rows.
THEOREM CumulativesAreSums == Spec => []CumulativeIsRunningSum
<1>1. ReportInv => CumulativeIsRunningSum
    BY DEF ReportInv, OrderInv, InOrder, CumulativeIsRunningSum, Early
<1> QED
    BY <1>1, ReportAlways, PTL

-----------------------------------------------------------------------------
(* Types                                                                   *)

\* No batch is taken that was not fed.
FeedInv == fed \in 0..MaxBatches /\ taken \in 0..fed

\* The feed and the queue keep the bounds.
LEMMA FeedAlways == Spec => []FeedInv
<1>1. Init => FeedInv
    BY PoolAssumption DEF Init, FeedInv
<1>2. FeedInv /\ [Next]_vars => FeedInv'
  <2> SUFFICES ASSUME FeedInv, [Next]_vars PROVE FeedInv'
      OBVIOUS
  <2>1. CASE Feed
      BY <2>1, PoolAssumption DEF Feed, FeedInv
  <2>2. ASSUME NEW w \in Callers, Take(w) PROVE FeedInv'
      BY <2>2, PoolAssumption DEF Take, FeedInv
  <2>3. CASE UNCHANGED <<fed, taken>>
      BY <2>3 DEF FeedInv
  <2> QED
      BY <2>1, <2>2, <2>3
      DEF Next, vars, Offer, StopEngine, StopSampling, Worker, Stamp, AskToken, Call, Return,
          Raise, Resume, End, Reporting, TimePasses, batchVars
<1> QED
    BY <1>1, <1>2, PTL DEF Spec

\* For every pool and lifetime: every variable keeps its type.
THEOREM SendPathTypeCorrect == Spec => []TypeOK
<1>1. Init => StampInv
    BY StampStart
<1>2. StampInv /\ [Next]_vars => StampInv'
    BY StampStep
<1>3. TokenInv /\ ReportInv /\ StampInv /\ FeedInv => TypeOK
    BY DEF TypeOK, TokenInv, ReportInv, BookInv, BookTypes, CountsOf, OrderInv, Early,
           Joining, StampInv, FeedInv
<1> QED
    BY <1>1, <1>2, <1>3, TokenAlways, ReportAlways, FeedAlways, PTL DEF Spec

=============================================================================
