----------------------------- MODULE ProbeCache -----------------------------
(***************************************************************************)
(* Infrastructure/Diagnostics/ProbeCache.cs: the cache in front of the     *)
(* public /db/ping and /documents/ping.  One process, one of the two keys; *)
(* the callers are the requests in it, interleaved at every step of        *)
(* ConcurrentDictionary.AddOrUpdate.                                       *)
(*                                                                         *)
(* A caller reads the clock first and decides with that reading, however   *)
(* long the thread then sleeps.                                            *)
(***************************************************************************)
EXTENDS Integers, Sequences

CONSTANTS
    Caller,
    Ttl,
    MaxClock    \* bound: the clock stops here

ASSUME ProbeCacheAssumption ==
    /\ Ttl \in Nat \ {0}
    /\ MaxClock \in Nat

VARIABLES
    clock,
    cached,     \* number of the entry in _entries, 0 for none
    expires,    \* ExpiresAt of each entry that was ever installed, in order
    started,    \* when each entry's Lazy ran its probe, or Unstarted
    ended,      \* the entries whose probe has a result
    pc,
    now,        \* each caller's reading of the clock
    entry       \* the entry it last found in the dictionary, then its own

vars == <<clock, cached, expires, started, ended, pc, now, entry>>

Unstarted == -1
Step == {"called", "loaded", "entered", "waiting"}

TypeOK ==
    /\ clock \in Nat
    /\ expires \in Seq(Nat) /\ started \in Seq(Nat \cup {Unstarted})
    /\ Len(started) = Len(expires)
    /\ cached = Len(expires)
    /\ ended \subseteq 1..Len(started)
    /\ pc \in [Caller -> {"idle"} \cup Step]
    /\ now \in [Caller -> Nat]
    /\ entry \in [Caller -> 0..cached]

Init ==
    /\ clock = 0 /\ cached = 0 /\ expires = <<>> /\ started = <<>> /\ ended = {}
    /\ pc = [w \in Caller |-> "idle"]
    /\ now = [w \in Caller |-> 0]
    /\ entry = [w \in Caller |-> 0]

Tick ==
    /\ clock < MaxClock
    /\ clock' = clock + 1
    /\ UNCHANGED <<cached, expires, started, ended, pc, now, entry>>

Goto(w, label) == pc' = [pc EXCEPT ![w] = label]

\* var now = _timeProvider.GetUtcNow()
Call(w) ==
    /\ pc[w] = "idle"
    /\ now' = [now EXCEPT ![w] = clock]
    /\ Goto(w, "called")
    /\ UNCHANGED <<clock, cached, expires, started, ended, entry>>

\* AddOrUpdate looks for the key and picks the factory to call.
Load(w) ==
    /\ pc[w] = "called"
    /\ entry' = [entry EXCEPT ![w] = cached]
    /\ Goto(w, "loaded")
    /\ UNCHANGED <<clock, cached, expires, started, ended, now>>

\* Slip: GetOrAdd, an entry is for ever.
ReusableForever(w) == entry[w] # 0

\* The update factory keeps an entry that was valid when the caller came.
Reusable(w) == entry[w] # 0 /\ expires[entry[w]] > now[w]

\* The entry it loaded is no longer the one in the dictionary: TryAdd or
\* TryUpdate fails and the loop starts over, with the same `now'.
Lose(w) ==
    /\ pc[w] = "loaded"
    /\ entry[w] # cached
    /\ Goto(w, "called")
    /\ UNCHANGED <<clock, cached, expires, started, ended, now, entry>>

Reuse(w) ==
    /\ pc[w] = "loaded"
    /\ entry[w] = cached /\ Reusable(w)
    /\ Goto(w, "entered")
    /\ UNCHANGED <<clock, cached, expires, started, ended, now, entry>>

\* Slip: a get and then a set, where AddOrUpdate compares and swaps.
InstallUnchecked(w) ==
    /\ pc[w] = "loaded"
    /\ ~Reusable(w)
    /\ expires' = Append(expires, now[w] + Ttl)
    /\ started' = Append(started, Unstarted)
    /\ cached' = cached + 1
    /\ entry' = [entry EXCEPT ![w] = cached + 1]
    /\ Goto(w, "entered")
    /\ UNCHANGED <<clock, ended, now>>

Install(w) ==
    /\ pc[w] = "loaded"
    /\ entry[w] = cached /\ ~Reusable(w)
    /\ expires' = Append(expires, now[w] + Ttl)
    /\ started' = Append(started, Unstarted)
    /\ cached' = cached + 1
    /\ entry' = [entry EXCEPT ![w] = cached + 1]
    /\ Goto(w, "entered")
    /\ UNCHANGED <<clock, ended, now>>

\* entry.Probe.Value: whoever comes first runs the probe, once.
Value(w) ==
    /\ pc[w] = "entered"
    /\ started' = IF started[entry[w]] = Unstarted
                  THEN [started EXCEPT ![entry[w]] = clock] ELSE started
    /\ Goto(w, "waiting")
    /\ UNCHANGED <<clock, cached, expires, ended, now, entry>>

\* Slip: a probe that awaits a dead connection without a timeout.
EndProbeNever(e) == FALSE /\ UNCHANGED vars

\* A probe ends, well or badly: the endpoints' lambdas catch what they throw and
\* the command timeout bounds what they await.
EndProbe(e) ==
    /\ e \in DOMAIN started \ ended
    /\ started[e] # Unstarted
    /\ ended' = ended \cup {e}
    /\ UNCHANGED <<clock, cached, expires, started, pc, now, entry>>

\* The request is over; its locals are gone.
Leave(w) ==
    /\ Goto(w, "idle")
    /\ now' = [now EXCEPT ![w] = 0]
    /\ entry' = [entry EXCEPT ![w] = 0]
    /\ UNCHANGED <<clock, cached, expires, started, ended>>

Return(w) == pc[w] = "waiting" /\ entry[w] \in ended /\ Leave(w)

\* A client goes away.  The probe is everybody's and does not notice.
Disconnect(w) == pc[w] = "waiting" /\ Leave(w)

CallerStep(w) == Load(w) \/ Lose(w) \/ Reuse(w) \/ Install(w) \/ Value(w) \/ Return(w)

Next ==
    \/ Tick
    \/ \E w \in Caller : Call(w) \/ CallerStep(w) \/ Disconnect(w)
    \/ \E e \in DOMAIN started : EndProbe(e)

\* Threads get the processor and probes end; nobody has to call.
Fairness ==
    /\ \A w \in Caller : WF_vars(CallerStep(w))
    /\ \A e \in 1..(MaxClock + 1) : WF_vars(e \in DOMAIN started /\ EndProbe(e))

Spec == Init /\ [][Next]_vars /\ Fairness

(***************************************************************************)
(* Properties.                                                             *)
(***************************************************************************)
Runs == {e \in DOMAIN started : started[e] # Unstarted}

\* However many callers come and however their threads are delayed, the process
\* does not run more probes than one per TTL since it started (and the first).
RateBound == \A e \in Runs : (e - 1) * Ttl <= clock

\* What a caller is told was found less than a TTL before the caller came, or
\* later: the probe it waits for was run then.
FreshAnswer ==
    \A w \in Caller : pc[w] = "waiting" => started[entry[w]] > now[w] - Ttl

\* Every caller gets an answer, also when the one who started the probe left.
Answered == \A w \in Caller : pc[w] \in Step ~> pc[w] = "idle"
=============================================================================
