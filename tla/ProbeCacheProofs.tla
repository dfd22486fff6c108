-------------------------- MODULE ProbeCacheProofs --------------------------
(***************************************************************************)
(* Theorems about ProbeCache, for every number of callers and every TTL.   *)
(***************************************************************************)
EXTENDS ProbeCache, TLAPS

(***************************************************************************)
(* The inductive invariant: the entries are a TTL apart, each was in force *)
(* no later than the clock, and whoever holds one came before it expired.  *)
(***************************************************************************)
Spaced == \A e \in 1..cached : e * Ttl <= expires[e] /\ expires[e] <= clock + Ttl

RunInForce == \A e \in 1..cached : started[e] # Unstarted => expires[e] <= started[e] + Ttl

Holds(w) ==
    /\ now[w] <= clock
    /\ pc[w] \in {"entered", "waiting"} => entry[w] # 0 /\ now[w] < expires[entry[w]]
    /\ pc[w] = "waiting" => started[entry[w]] # Unstarted

CacheInv == TypeOK /\ Spaced /\ RunInForce /\ \A w \in Caller : Holds(w)

LEMMA CacheInit == Init => CacheInv
  <1> SUFFICES ASSUME Init PROVE CacheInv
    OBVIOUS
  <1>1. TypeOK
    BY DEF Init, TypeOK, Step
  <1> QED  BY <1>1 DEF Init, CacheInv, Spaced, RunInForce, Holds

\* Steps that touch neither the entries nor the probes.
LEMMA QuietStep ==
    ASSUME CacheInv, UNCHANGED <<cached, expires, started>>, NEW w \in Caller,
           clock' = clock, ended' \subseteq 1..Len(started),
           pc' \in [Caller -> {"idle"} \cup Step], now' \in [Caller -> Nat],
           entry' \in [Caller -> 0..cached],
           Holds(w)',
           \A v \in Caller \ {w} : pc'[v] = pc[v] /\ now'[v] = now[v] /\ entry'[v] = entry[v]
    PROVE  CacheInv'
  <1>1. TypeOK'
    BY DEF CacheInv, TypeOK
  <1>2. Spaced' /\ RunInForce'
    BY DEF CacheInv, Spaced, RunInForce
  <1>3. \A v \in Caller : Holds(v)'
    BY DEF CacheInv, Holds
  <1> QED  BY <1>1, <1>2, <1>3 DEF CacheInv

\* A new entry comes a TTL after the one it replaces.
LEMMA InstallStep ==
    ASSUME CacheInv, NEW w \in Caller, Install(w)
    PROVE  CacheInv'
  <1> USE ProbeCacheAssumption
  <1> DEFINE top == cached + 1
             until == now[w] + Ttl
  <1>1. /\ TypeOK /\ cached \in Nat /\ clock \in Nat /\ now[w] \in Nat /\ now[w] <= clock
        /\ expires \in Seq(Nat) /\ started \in Seq(Nat \cup {Unstarted})
        /\ Len(expires) = cached /\ Len(started) = cached
    BY DEF CacheInv, Holds, TypeOK
  <1>2. /\ expires' = Append(expires, until) /\ started' = Append(started, Unstarted)
        /\ cached' = top /\ until \in Nat /\ clock' = clock
    BY <1>1 DEF Install
  <1>3. /\ \A e \in 1..cached : expires'[e] = expires[e] /\ started'[e] = started[e]
        /\ expires'[top] = until /\ started'[top] = Unstarted
        /\ Len(expires') = top /\ Len(started') = top
        /\ expires' \in Seq(Nat) /\ started' \in Seq(Nat \cup {Unstarted})
    BY <1>1, <1>2 DEF Unstarted
  <1>4. \A e \in 1..top : e \in 1..cached \/ e = top
    BY <1>1
  <1>5. top * Ttl <= until
    <2>1. CASE cached = 0
      BY <1>1, <2>1
    <2>2. CASE cached # 0
      <3>1. entry[w] = cached /\ ~(expires[cached] > now[w]) /\ cached \in 1..cached
        BY <1>1, <2>2 DEF Install, Reusable
      <3>2. cached * Ttl <= expires[cached] /\ expires[cached] \in Nat
        BY <1>1, <3>1 DEF CacheInv, Spaced
      <3>3. cached * Ttl <= now[w]
        BY <1>1, <3>1, <3>2
      <3>4. top * Ttl = cached * Ttl + Ttl /\ cached * Ttl \in Nat
        BY <1>1
      <3> QED  BY <1>1, <3>3, <3>4
    <2> QED  BY <2>1, <2>2
  <1>6. Spaced'
    <2>1. ASSUME NEW e \in 1..top PROVE e * Ttl <= expires'[e] /\ expires'[e] <= clock + Ttl
      <3>1. CASE e \in 1..cached
        BY <1>3, <3>1 DEF CacheInv, Spaced
      <3>2. CASE e = top
        <4>1. until <= clock + Ttl
          BY <1>1
        <4> QED  BY <1>3, <1>5, <3>2, <4>1
      <3> QED  BY <1>4, <3>1, <3>2
    <2> QED  BY <1>2, <2>1 DEF Spaced
  <1>7. RunInForce'
    BY <1>2, <1>3, <1>4 DEF CacheInv, RunInForce
  <1>8. TypeOK'
    <2>1. ended' \subseteq 1..Len(started')
      BY <1>1, <1>3 DEF Install, TypeOK
    <2>2. entry' \in [Caller -> 0..cached'] /\ pc' \in [Caller -> {"idle"} \cup Step]
      BY <1>1, <1>2 DEF Install, Goto, TypeOK, Step
    <2> QED  BY <1>1, <1>2, <1>3, <2>1, <2>2 DEF Install, TypeOK
  <1>9. ASSUME NEW v \in Caller PROVE Holds(v)'
    <2>1. CASE v = w
      <3>1. pc'[w] = "entered" /\ entry'[w] = top /\ now'[w] = now[w]
        BY <1>1, <2>1 DEF Install, Goto, TypeOK
      <3>2. now[w] < until /\ top # 0
        BY <1>1
      <3> QED  BY <1>1, <1>2, <1>3, <2>1, <3>1, <3>2 DEF Holds
    <2>2. CASE v # w
      <3>1. pc'[v] = pc[v] /\ entry'[v] = entry[v] /\ now'[v] = now[v] /\ entry[v] \in 0..cached
        BY <1>1, <2>2 DEF Install, Goto, TypeOK
      <3>2. entry[v] # 0 => entry[v] \in 1..cached
        BY <1>1, <3>1
      <3> QED  BY <1>2, <1>3, <3>1, <3>2 DEF CacheInv, Holds
    <2> QED  BY <2>1, <2>2
  <1> QED  BY <1>6, <1>7, <1>8, <1>9 DEF CacheInv

\* The first to come runs the probe, while its entry is in force.
LEMMA ValueStep ==
    ASSUME CacheInv, NEW w \in Caller, Value(w)
    PROVE  CacheInv'
  <1> DEFINE e == entry[w]
  <1>1. /\ TypeOK /\ e \in 1..cached /\ clock \in Nat /\ Ttl \in Nat /\ cached \in Nat
        /\ started \in Seq(Nat \cup {Unstarted}) /\ Len(started) = cached
        /\ expires \in Seq(Nat) /\ Len(expires) = cached
    BY ProbeCacheAssumption DEF CacheInv, Holds, Value, TypeOK
  <1>2. /\ started' \in Seq(Nat \cup {Unstarted}) /\ Len(started') = cached
        /\ started'[e] # Unstarted
        /\ \A d \in 1..cached : started'[d] = started[d] \/ (started'[d] = clock /\ d = e)
    <2>1. CASE started[e] = Unstarted
      <3>1. started' = [started EXCEPT ![e] = clock]
        BY <2>1 DEF Value
      <3>2. clock # Unstarted /\ DOMAIN started = 1..cached
        BY <1>1 DEF Unstarted
      <3> QED  BY <1>1, <3>1, <3>2
    <2>2. CASE started[e] # Unstarted
      BY <1>1, <2>2 DEF Value
    <2> QED  BY <2>1, <2>2
  <1>3. TypeOK'
    BY <1>1, <1>2 DEF Value, Goto, TypeOK, Step
  <1>4. Spaced'
    BY DEF CacheInv, Spaced, Value
  <1>5. RunInForce'
    BY <1>1, <1>2 DEF CacheInv, Spaced, RunInForce, Value
  <1>6. ASSUME NEW v \in Caller PROVE Holds(v)'
    <2>1. entry[v] \in 0..cached /\ entry'[v] = entry[v] /\ now'[v] = now[v]
      BY <1>1 DEF Value, TypeOK
    <2>2. CASE v = w
      BY <1>1, <1>2, <2>1, <2>2 DEF CacheInv, Holds, Value, Goto, TypeOK
    <2>3. CASE v # w
      <3>1. pc'[v] = pc[v]
        BY <1>1, <2>3 DEF Value, Goto, TypeOK
      <3>2. pc[v] = "waiting" => entry[v] \in 1..cached /\ started[entry[v]] # Unstarted
        BY <1>1, <2>1 DEF CacheInv, Holds
      <3>3. pc[v] = "waiting" => started'[entry[v]] # Unstarted
        BY <1>1, <1>2, <3>2 DEF Unstarted
      <3> QED  BY <2>1, <3>1, <3>3 DEF CacheInv, Holds, Value
    <2> QED  BY <2>2, <2>3
  <1> QED  BY <1>3, <1>4, <1>5, <1>6 DEF CacheInv

LEMMA CacheStep == CacheInv /\ [Next]_vars => CacheInv'
  <1> SUFFICES ASSUME CacheInv, [Next]_vars PROVE CacheInv'
    OBVIOUS
  <1>0. TypeOK /\ cached \in Nat /\ clock \in Nat /\ Len(started) = cached
    BY DEF CacheInv, TypeOK
  <1>1. CASE Tick
    <2>1. TypeOK'
      BY <1>0, <1>1 DEF Tick, TypeOK
    <2>2. Spaced'
      <3>1. \A e \in 1..cached : expires[e] \in Nat
        BY <1>0 DEF TypeOK
      <3> QED  BY <1>0, <1>1, <3>1, ProbeCacheAssumption DEF CacheInv, Tick, Spaced
    <2>3. RunInForce' /\ \A w \in Caller : Holds(w)'
      BY <1>0, <1>1 DEF CacheInv, Tick, RunInForce, Holds, TypeOK
    <2> QED  BY <2>1, <2>2, <2>3 DEF CacheInv
  <1>2. ASSUME NEW w \in Caller, Call(w) PROVE CacheInv'
    <2>1. /\ pc' \in [Caller -> {"idle"} \cup Step] /\ now' \in [Caller -> Nat]
          /\ pc'[w] = "called" /\ now'[w] = clock
          /\ \A v \in Caller \ {w} : pc'[v] = pc[v] /\ now'[v] = now[v]
      BY <1>0, <1>2 DEF Call, Goto, TypeOK, Step
    <2>2. Holds(w)'
      BY <1>0, <1>2, <2>1 DEF Call, Holds
    <2> QED  BY <1>0, <1>2, <2>1, <2>2, QuietStep DEF Call, TypeOK
  <1>3. ASSUME NEW w \in Caller, Load(w) PROVE CacheInv'
    <2>1. /\ pc' \in [Caller -> {"idle"} \cup Step] /\ entry' \in [Caller -> 0..cached]
          /\ pc'[w] = "loaded"
          /\ \A v \in Caller \ {w} : pc'[v] = pc[v] /\ entry'[v] = entry[v]
      BY <1>0, <1>3 DEF Load, Goto, TypeOK, Step
    <2>2. Holds(w)'
      BY <1>3, <2>1 DEF CacheInv, Load, Holds
    <2> QED  BY <1>0, <1>3, <2>1, <2>2, QuietStep DEF Load, TypeOK
  <1>4. ASSUME NEW w \in Caller, Lose(w) PROVE CacheInv'
    <2>1. /\ pc' \in [Caller -> {"idle"} \cup Step] /\ pc'[w] = "called"
          /\ \A v \in Caller \ {w} : pc'[v] = pc[v]
      BY <1>0, <1>4 DEF Lose, Goto, TypeOK, Step
    <2>2. Holds(w)'
      BY <1>4, <2>1 DEF CacheInv, Lose, Holds
    <2> QED  BY <1>0, <1>4, <2>1, <2>2, QuietStep DEF Lose, TypeOK
  <1>5. ASSUME NEW w \in Caller, Reuse(w) PROVE CacheInv'
    <2>1. /\ pc' \in [Caller -> {"idle"} \cup Step] /\ pc'[w] = "entered"
          /\ \A v \in Caller \ {w} : pc'[v] = pc[v]
      BY <1>0, <1>5 DEF Reuse, Goto, TypeOK, Step
    <2>2. entry[w] # 0 /\ now[w] < expires[entry[w]]
      <3>1. entry[w] \in 1..cached /\ expires[entry[w]] > now[w]
        BY <1>0, <1>5 DEF Reuse, Reusable, TypeOK
      <3>2. expires[entry[w]] \in Nat /\ now[w] \in Nat
        BY <1>0, <3>1 DEF TypeOK
      <3> QED  BY <3>1, <3>2
    <2>3. Holds(w)'
      BY <1>5, <2>1, <2>2 DEF CacheInv, Reuse, Holds
    <2> QED  BY <1>0, <1>5, <2>1, <2>3, QuietStep DEF Reuse, TypeOK
  <1>6. ASSUME NEW w \in Caller, Return(w) \/ Disconnect(w) PROVE CacheInv'
    <2>0. Leave(w)
      BY <1>6 DEF Return, Disconnect
    <2>1. /\ pc' \in [Caller -> {"idle"} \cup Step] /\ pc'[w] = "idle"
          /\ now' \in [Caller -> Nat] /\ entry' \in [Caller -> 0..cached] /\ now'[w] = 0
          /\ \A v \in Caller \ {w} : pc'[v] = pc[v] /\ now'[v] = now[v] /\ entry'[v] = entry[v]
      BY <1>0, <2>0 DEF Leave, Goto, TypeOK, Step
    <2>2. Holds(w)'
      BY <1>0, <2>0, <2>1 DEF Leave, Holds
    <2> QED  BY <1>0, <2>0, <2>1, <2>2, QuietStep DEF Leave, TypeOK
  <1>7. ASSUME NEW e \in DOMAIN started, EndProbe(e) PROVE CacheInv'
    <2>1. TypeOK'
      <3>1. e \in 1..Len(started)
        BY <1>0 DEF TypeOK
      <3>2. ended' \subseteq 1..Len(started)
        BY <1>0, <1>7, <3>1 DEF EndProbe, TypeOK
      <3> QED  BY <1>0, <1>7, <3>2 DEF EndProbe, TypeOK
    <2> QED  BY <1>7, <2>1 DEF EndProbe, CacheInv, Spaced, RunInForce, Holds
  <1>8. CASE UNCHANGED vars
    BY <1>8 DEF vars, CacheInv, TypeOK, Spaced, RunInForce, Holds
  <1> QED  BY <1>1, <1>2, <1>3, <1>4, <1>5, <1>6, <1>7, <1>8, InstallStep, ValueStep
           DEF Next, CallerStep

LEMMA CacheInvariant == Spec => []CacheInv
  BY CacheInit, CacheStep, PTL DEF Spec

\* A request that installs or waits always has an entry of the dictionary to
\* wait for (ProbeCache.GetOrProbeAsync).
THEOREM CacheTypeCorrect == Spec => []TypeOK
  BY CacheInvariant, PTL DEF CacheInv

\* Up to any moment the public pings have run no more probes than one per TTL since
\* the process started, and the first, however many requests come and however late
\* their threads act on the clock they read (ProbeCache.GetOrProbeAsync).  Two may
\* start close together, when the entry of the first is born expired.
THEOREM ProbeRateBounded == Spec => []RateBound
  <1>1. CacheInv => RateBound
    <2> SUFFICES ASSUME CacheInv, NEW e \in Runs PROVE (e - 1) * Ttl <= clock
      BY DEF RateBound
    <2>0. /\ cached \in Nat /\ clock \in Nat /\ Ttl \in Nat /\ Len(started) = cached
          /\ Len(expires) = cached /\ expires \in Seq(Nat) /\ started \in Seq(Nat \cup {Unstarted})
      BY ProbeCacheAssumption DEF CacheInv, TypeOK
    <2>1. e \in 1..cached /\ cached \in Nat /\ clock \in Nat /\ Ttl \in Nat /\ expires[e] \in Nat
      BY <2>0 DEF Runs
    <2>2. e * Ttl <= expires[e] /\ expires[e] <= clock + Ttl
      BY <2>1 DEF CacheInv, Spaced
    <2>3. (e - 1) * Ttl = e * Ttl - Ttl /\ e * Ttl \in Nat
      BY <2>1
    <2> QED  BY <2>1, <2>2, <2>3
  <1> QED  BY <1>1, CacheInvariant, PTL

\* No caller is answered with a probe run a TTL or more before it came.
THEOREM AnswersFresh == Spec => []FreshAnswer
  <1>1. CacheInv => FreshAnswer
    <2> SUFFICES ASSUME CacheInv, NEW w \in Caller, pc[w] = "waiting"
                 PROVE  started[entry[w]] > now[w] - Ttl
      BY DEF FreshAnswer
    <2> DEFINE e == entry[w]
    <2>1. e \in 1..cached /\ started[e] # Unstarted /\ now[w] < expires[e]
      BY DEF CacheInv, TypeOK, Holds
    <2>2. expires[e] <= started[e] + Ttl
      BY <2>1 DEF CacheInv, RunInForce
    <2>3. started[e] \in Nat /\ expires[e] \in Nat /\ now[w] \in Nat /\ Ttl \in Nat
      BY <2>1, ProbeCacheAssumption DEF CacheInv, TypeOK
    <2> QED  BY <2>1, <2>2, <2>3
  <1> QED  BY <1>1, CacheInvariant, PTL
=============================================================================
