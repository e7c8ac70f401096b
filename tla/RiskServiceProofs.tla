-------------------------- MODULE RiskServiceProofs --------------------------
(* Proofs about RiskService, for any number of threads, places, sessions and  *)
(* rows: what a risk request says of its data stays true while the device and *)
(* the operators change under it.                                             *)
EXTENDS RiskService, FiniteSetTheorems, TLAPS

-----------------------------------------------------------------------------
(* The inductive invariant *)

Shaped(r) ==
  r = [step |-> r.step, row |-> r.row, begun |-> r.begun, quiet |-> r.quiet,
       env |-> r.env, place |-> r.place, model |-> r.model, result |-> r.result]

\* Weather that is not stale was fresh when the request arrived.
FreshFor(env, begun) == env.kind = "live" => begun - env.fetched < Ttl

\* A row of a session is one of a session that began, and so froze something.
Linked(row) ==
  row # None /\ row.session # None => row.session \in Sessions /\ frozen[row.session] # None

\* What is cached was fetched no earlier than its stamp says.
CacheInv ==
  /\ cache = [p \in Places |-> cache[p]]
  /\ \A p \in Places : cache[p] # None =>
       cache[p].stamp \in Nat /\ cache[p].fetched \in Nat /\ cache[p].stamp <= cache[p].fetched

\* A call is for a place; its fetch began after it read the clock.
Called(c) ==
  /\ c.step \in {"lock", "fetch", "resolve", "resolved"} => c.place \in Places
  /\ c.step \in {"lock", "fetch"} => c.now \in Nat /\ c.now <= clock
  /\ c.step = "fetch" => c.fetched \in Nat /\ c.now <= c.fetched

\* The call of a request that waits for its weather.
Calling(r, c) ==
  /\ c.step \in {"lock", "fetch", "returned"}
  /\ c.step # "returned" => r.begun <= c.now /\ (r.quiet => c.place = WeatherPlace)
  /\ c.step = "returned" => FreshFor(c.answer, r.begun) /\ (r.quiet => c.answer.place = WeatherPlace)
  /\ r.quiet => Selected = "default"

\* What a request has read, while nothing was changed under it.
Moment(r) ==
  /\ r.step \in {"place", "model", "history", "answered"} =>
       /\ Selected = "default" => r.env.place = WeatherPlace
       /\ Selected = "custom" => r.env.kind = "manual" /\ r.env.place = scenario
       /\ Selected = "official" =>
            r.env.kind = "manual" /\ r.env.place = profile /\ profile = active
  /\ r.step \in {"model", "history", "answered"} => r.place = place
  /\ r.step \in {"history", "answered"} => r.model = Selected
  /\ r.step = "answered" =>
       /\ r.model = "custom" => r.result.basis = scenario
       /\ r.model = "official" => r.result.basis = active

\* What an answer says, whatever was changed.
Outcome(r) ==
  /\ ~r.result.degraded => r.model = "default" /\ r.row.ok /\ r.env.kind = "live"
  /\ r.row.session # None =>
       (r.model = "custom" \/ (r.model = "official" /\ frozen[r.row.session] \in Artifacts)
          => r.result.basis = frozen[r.row.session])

Sound(r, c) ==
  /\ Shaped(r) /\ r.begun \in Nat /\ r.begun <= clock
  /\ Linked(r.row)
  /\ r.row = None => r.step \in {"select", "weather", "shown", "refused"}
  /\ r.env # None => FreshFor(r.env, r.begun)
  /\ r.step = "answered" => Outcome(r)
  /\ r.quiet => Moment(r)
  /\ r.step = "weather" /\ c # None => Calling(r, c)

Kept ==
  /\ clock \in Nat
  /\ model \in {"default", "custom", "official"} /\ place \in Places \cup {None}
  /\ configured \in Places \cup {None}
  /\ \A i \in 1..Len(rows) : Linked(rows[i])
  /\ rows \in Seq({rows[i] : i \in 1..Len(rows)})
  /\ collecting # None => collecting \in Sessions /\ frozen[collecting] # None
  /\ frozen = [s \in Sessions |-> frozen[s]]

Requested ==
  /\ req = [t \in Threads |-> req[t]] /\ call = [t \in Threads |-> call[t]]
  /\ \A t \in Threads : call[t] # None => Called(call[t])
  /\ \A t \in Threads : req[t] # None => Sound(req[t], call[t])

RiskInv == CacheInv /\ Kept /\ Requested

-----------------------------------------------------------------------------
(* What one thread does leaves the others alone *)

LEMMA Put ==
  ASSUME NEW f, f = [u \in Threads |-> f[u]], NEW t \in Threads, NEW x,
         NEW g, g = [f EXCEPT ![t] = x]
  PROVE  g = [u \in Threads |-> g[u]] /\ g[t] = x /\ \A u \in Threads \ {t} : g[u] = f[u]
OBVIOUS

\* A step of the thread t and its call.
LEMMA ServingKeeps ==
  ASSUME RiskInv, NEW t \in Threads,
         UNCHANGED <<clock, context, recording>>, CacheInv',
         req' = [u \in Threads |-> req'[u]], call' = [u \in Threads |-> call'[u]],
         \A u \in Threads \ {t} : req'[u] = req[u] /\ call'[u] = call[u],
         call'[t] # None => Called(call'[t]), req'[t] # None => Sound(req'[t], call'[t])
  PROVE  RiskInv'
<1>1. Kept'
  BY DEF RiskInv, Kept, context, recording, Linked
<1>2. ASSUME NEW u \in Threads, req'[u] # None PROVE Sound(req'[u], call'[u])
  BY <1>2 DEF RiskInv, Requested
<1>3. ASSUME NEW u \in Threads, req'[u] # None PROVE Sound(req[u], call[u])'
  <2>1. Sound(req'[u], call'[u])
    BY <1>2, <1>3
  <2> QED BY <2>1 DEF Sound, Linked, Calling, Moment, Outcome, Selected, WeatherPlace, context, recording
<1>4. ASSUME NEW u \in Threads, call'[u] # None PROVE Called(call[u])'
  <2>1. Called(call'[u])
    BY <1>4 DEF RiskInv, Requested
  <2> QED BY <2>1 DEF Called
<1> QED BY <1>1, <1>3, <1>4 DEF RiskInv, Requested

\* A call moves on under a request that waits for it.
LEMMA CallKeeps ==
  ASSUME RiskInv, NEW t \in Threads, UNCHANGED <<clock, context, recording, req>>, CacheInv',
         NEW c, call' = [call EXCEPT ![t] = c], c # None => Called(c),
         req[t] # None /\ req[t].step = "weather" /\ c # None => Calling(req[t], c)
  PROVE  RiskInv'
<1>1. /\ call' = [u \in Threads |-> call'[u]] /\ call'[t] = c
      /\ \A u \in Threads \ {t} : call'[u] = call[u]
  BY Put DEF RiskInv, Requested
<1>2. req' = [u \in Threads |-> req'[u]] /\ \A u \in Threads : req'[u] = req[u]
  BY DEF RiskInv, Requested
<1>3. req[t] # None => Sound(req[t], c)
  BY DEF RiskInv, Requested, Sound
<1> QED BY <1>1, <1>2, <1>3, ServingKeeps

\* A request moves on and its call stays.
LEMMA RequestKeeps ==
  ASSUME RiskInv, NEW t \in Threads, UNCHANGED <<cacheVars, context, recording>>,
         NEW r, req' = [req EXCEPT ![t] = r], r # None => Sound(r, call[t])
  PROVE  RiskInv'
<1>1. /\ req' = [u \in Threads |-> req'[u]] /\ req'[t] = r
      /\ \A u \in Threads \ {t} : req'[u] = req[u]
  BY Put DEF RiskInv, Requested
<1>2. call' = [u \in Threads |-> call'[u]] /\ \A u \in Threads : call'[u] = call[u]
  BY DEF RiskInv, Requested, cacheVars
<1>3. CacheInv' /\ UNCHANGED <<clock, context, recording>>
  BY DEF RiskInv, CacheInv, cacheVars
<1>4. call[t] # None => Called(call[t])
  BY DEF RiskInv, Requested
<1> QED BY <1>1, <1>2, <1>3, <1>4, ServingKeeps

\* A change is seen by every request under way.
LEMMA ChangeKeeps ==
  ASSUME RiskInv, Change, UNCHANGED clock, CacheInv',
         place' \in Places \cup {None}, model' \in {"default", "custom", "official"},
         call' = [u \in Threads |-> call'[u]], \A u \in Threads : call'[u] \in {call[u], None}
  PROVE  RiskInv'
<1>1. Kept'
  BY DEF RiskInv, Kept, Change, recording, Linked
<1>2. req' = [u \in Threads |-> req'[u]]
  BY DEF Change
<1>3. ASSUME NEW u \in Threads, req'[u] # None PROVE Sound(req[u], call[u])'
  <2>1. req[u] # None /\ req'[u] = [req[u] EXCEPT !.quiet = FALSE]
    BY <1>3 DEF Change
  <2>2. Sound(req[u], call[u])
    BY <2>1 DEF RiskInv, Requested
  <2> DEFINE r == req[u]
             q == req'[u]
  <2>3. /\ Shaped(q) /\ q.step = r.step /\ q.row = r.row /\ q.begun = r.begun /\ q.quiet = FALSE
        /\ q.env = r.env /\ q.place = r.place /\ q.model = r.model /\ q.result = r.result
    BY <2>1, <2>2 DEF Sound, Shaped
  <2>4. UNCHANGED recording
    BY DEF Change
  <2>5. (Linked(r.row) /\ (r.step = "answered" => Outcome(r))) => (Linked(r.row) /\ (r.step = "answered" => Outcome(q)))
    BY <2>3 DEF Outcome
  <2>6. r.step = "weather" /\ call'[u] # None => Calling(r, call'[u])
    BY <2>2 DEF Sound
  <2> QED BY <2>2, <2>3, <2>4, <2>5, <2>6 DEF Sound, Shaped, Linked, Outcome, Calling, recording
<1>4. ASSUME NEW u \in Threads, call'[u] # None PROVE Called(call[u])'
  BY <1>4 DEF RiskInv, Requested, Called
<1> QED BY <1>1, <1>2, <1>3, <1>4 DEF RiskInv, Requested

\* What a session froze stays, and time only goes on.
LEMMA RecordKeeps ==
  ASSUME RiskInv, Kept', UNCHANGED <<cache, call, context, req>>, clock <= clock',
         \A s \in Sessions : frozen[s] # None => frozen'[s] = frozen[s]
  PROVE  RiskInv'
<1>1. CacheInv'
  BY DEF RiskInv, CacheInv
<1>2. ASSUME NEW u \in Threads, req[u] # None PROVE Sound(req[u], call[u])'
  <2> DEFINE r == req[u]
  <2>1. Sound(r, call[u])
    BY <1>2 DEF RiskInv, Requested
  <2>2. clock \in Nat /\ clock' \in Nat
    BY DEF RiskInv, Kept
  <2>3. Linked(r.row)'
    BY <2>1 DEF Sound, Linked
  <2>4. r.step = "answered" => Outcome(r)'
    <3>1. r.step = "answered" => r.row # None
      BY <2>1 DEF Sound
    <3> QED BY <2>1 DEF Sound, Linked, Outcome
  <2>5. r.quiet => Moment(r)'
    BY <2>1 DEF Sound, Moment, Selected, WeatherPlace, context
  <2>6. r.step = "weather" /\ call[u] # None => Calling(r, call[u])'
    BY <2>1, <2>2 DEF Sound, Calling, Selected, WeatherPlace, context
  <2>7. Shaped(r)' /\ r'.begun \in Nat /\ r'.begun <= clock'
    BY <2>1, <2>2 DEF Sound, Shaped
  <2> QED BY <2>1, <2>3, <2>4, <2>5, <2>6, <2>7 DEF Sound
<1>3. ASSUME NEW u \in Threads, call[u] # None PROVE Called(call[u])'
  <2>1. clock \in Nat /\ clock' \in Nat /\ Called(call[u])
    BY <1>3 DEF RiskInv, Kept, Requested
  <2> QED BY <2>1 DEF Called
<1> QED BY <1>1, <1>2, <1>3 DEF RiskInv, Requested

-----------------------------------------------------------------------------
(* The environment's cache *)

LEMMA CachedKeeps == ASSUME RiskInv, NEW t \in Threads, Inside(t), CachedWeather(t) PROVE RiskInv'
<1> DEFINE p == call[t].place
           c == [step |-> "returned", answer |-> Weather("live", p, cache[p].fetched)]
<1>1. call' = [call EXCEPT ![t] = c] /\ UNCHANGED <<clock, cache, context, recording, req>>
  BY DEF Inside, CachedWeather, Return
<1>2. CacheInv'
  BY <1>1 DEF RiskInv, CacheInv
<1>3. ASSUME req[t] # None, req[t].step = "weather" PROVE Calling(req[t], c)
  <2>1. Calling(req[t], call[t]) /\ call[t].step = "lock" /\ Sound(req[t], call[t])
    BY <1>3 DEF RiskInv, Requested, Sound, CachedWeather, At
  <2>2. p \in Places /\ call[t].now \in Nat /\ req[t].begun <= call[t].now /\ req[t].begun \in Nat
    BY <2>1 DEF Calling, Sound, RiskInv, Requested, Called, CachedWeather, At
  <2>3. /\ cache[p] # None /\ call[t].now - cache[p].stamp < Ttl
        /\ cache[p].stamp \in Nat /\ cache[p].fetched \in Nat /\ cache[p].stamp <= cache[p].fetched
    BY <2>2 DEF CachedWeather, Fresh, RiskInv, CacheInv
  <2>4. FreshFor(c.answer, req[t].begun)
    <3>1. req[t].begun - cache[p].fetched < Ttl
      BY <2>2, <2>3, CacheAssumption
    <3> QED BY <3>1 DEF FreshFor, Weather
  <2>5. c.step = "returned" /\ c.answer.place = p
    BY DEF Weather
  <2> HIDE DEF c, p
  <2> QED BY <2>1, <2>4, <2>5 DEF Calling, p
<1>4. Called(c)
  BY DEF Called
<1> HIDE DEF c
<1> QED BY <1>1, <1>2, <1>3, <1>4, CallKeeps

LEMMA TakeLockKeeps == ASSUME RiskInv, NEW t \in Threads, Inside(t), TakeLock(t) PROVE RiskInv'
<1> DEFINE c == [step |-> "fetch", place |-> call[t].place, now |-> call[t].now, fetched |-> clock]
<1>1. call' = [call EXCEPT ![t] = c] /\ UNCHANGED <<clock, cache, context, recording, req>>
  BY DEF Inside, TakeLock
<1>2. CacheInv'
  BY <1>1 DEF RiskInv, CacheInv
<1>3. ASSUME req[t] # None, req[t].step = "weather" PROVE Calling(req[t], c)
  <2>1. Calling(req[t], call[t]) /\ call[t].step = "lock" /\ clock \in Nat
    BY <1>3 DEF RiskInv, Requested, Sound, TakeLock, At, Kept
  <2>2. c.step = "fetch" /\ c.place = call[t].place /\ c.now = call[t].now /\ c.fetched = clock
    OBVIOUS
  <2> HIDE DEF c
  <2> QED BY <2>1, <2>2 DEF Calling
<1>4. Called(c)
  BY DEF Called, RiskInv, Requested, TakeLock, At, Kept
<1> HIDE DEF c
<1> QED BY <1>1, <1>2, <1>3, <1>4, CallKeeps

\* What a fetch brings is no older than the request; its stamp is older still.
LEMMA FetchKeeps == ASSUME RiskInv, NEW t \in Threads, Inside(t), FetchWeather(t) PROVE RiskInv'
<1> DEFINE p == call[t].place
           c == [step |-> "returned", answer |-> Weather("live", p, call[t].fetched)]
           e == [fetched |-> call[t].fetched, stamp |-> call[t].now]
<1>1. /\ call' = [call EXCEPT ![t] = c] /\ UNCHANGED <<clock, context, recording, req>>
      /\ cache' = [cache EXCEPT ![p] = e] /\ call[t] # None /\ call[t].step = "fetch"
  BY DEF Inside, FetchWeather, Return, StampOf, At
<1>2. /\ p \in Places /\ call[t].now \in Nat
      /\ call[t].fetched \in Nat /\ call[t].now <= call[t].fetched
  BY <1>1 DEF RiskInv, Requested, Called
<1>3. CacheInv'
  <2>1. e.stamp \in Nat /\ e.fetched \in Nat /\ e.stamp <= e.fetched
    BY <1>2
  <2> HIDE DEF e, p
  <2> QED BY <1>1, <2>1 DEF RiskInv, CacheInv
<1>4. ASSUME req[t] # None, req[t].step = "weather" PROVE Calling(req[t], c)
  <2>1. Calling(req[t], call[t]) /\ Sound(req[t], call[t])
    BY <1>1, <1>4 DEF RiskInv, Requested, Sound
  <2>2. req[t].begun \in Nat /\ req[t].begun <= call[t].now
    BY <1>1, <2>1 DEF Calling, Sound
  <2>3. FreshFor(c.answer, req[t].begun)
    BY <1>2, <2>2, CacheAssumption DEF FreshFor, Weather
  <2>4. c.step = "returned" /\ c.answer.place = p
    BY DEF Weather
  <2> HIDE DEF c, p
  <2> QED BY <1>1, <2>1, <2>3, <2>4 DEF Calling, p
<1>5. Called(c)
  BY DEF Called
<1> HIDE DEF c
<1> QED BY <1>1, <1>3, <1>4, <1>5, CallKeeps

\* Stale weather promises nothing.
LEMMA NoWeatherKeeps == ASSUME RiskInv, NEW t \in Threads, Inside(t), NoWeather(t) PROVE RiskInv'
<1> DEFINE p == call[t].place
           c == [step |-> "returned", answer |-> IF cache[p] # None THEN Weather("stale", p, cache[p].fetched)
                                                 ELSE Weather("stale", p, None)]
<1>1. /\ call' = [call EXCEPT ![t] = c] /\ UNCHANGED <<clock, cache, context, recording, req>>
      /\ call[t] # None /\ call[t].step = "fetch"
  BY DEF Inside, NoWeather, Return, At
<1>2. CacheInv'
  BY <1>1 DEF RiskInv, CacheInv
<1>3. c.step = "returned" /\ c.answer.place = p /\ c.answer.kind = "stale"
  BY DEF Weather
<1> HIDE DEF c
<1>4. ASSUME req[t] # None, req[t].step = "weather" PROVE Calling(req[t], c)
  <2>1. Calling(req[t], call[t])
    BY <1>1, <1>4 DEF RiskInv, Requested, Sound
  <2> QED BY <1>1, <1>3, <2>1 DEF Calling, FreshFor
<1>5. Called(c)
  BY <1>3 DEF Called
<1> QED BY <1>1, <1>2, <1>4, <1>5, CallKeeps

\* A thread that searches or resolves a place waits for no weather.
LEMMA PlaceCallKeeps ==
  ASSUME RiskInv, NEW t \in Threads, UNCHANGED <<clock, cache, context, recording, req>>,
         NEW c, call' = [call EXCEPT ![t] = c],
         c = None \/ Called(c),
         req[t] = None \/ (call[t] # None /\ call[t].step \in {"search", "resolve"})
  PROVE  RiskInv'
<1>1. CacheInv'
  BY DEF RiskInv, CacheInv
<1>2. c # None => Called(c)
  OBVIOUS
<1>3. ~(req[t] # None /\ req[t].step = "weather")
  BY DEF RiskInv, Requested, Sound, Calling
<1> QED BY <1>1, <1>2, <1>3, CallKeeps

LEMMA SearchedKeeps == ASSUME RiskInv, NEW t \in Threads, Inside(t), Searched(t) PROVE RiskInv'
BY PlaceCallKeeps DEF Inside, Searched, At

LEMMA ResolvedKeeps == ASSUME RiskInv, NEW t \in Threads, Inside(t), Resolved(t) PROVE RiskInv'
<1>1. UNCHANGED <<clock, cache, context, recording, req>> /\ call[t] # None /\ call[t].step = "resolve"
  BY DEF Inside, Resolved, At
<1>2. PICK c \in {None, [step |-> "resolved", place |-> call[t].place]} : call' = [call EXCEPT ![t] = c]
  BY DEF Resolved
<1>3. c = None \/ Called(c)
  BY <1>1, <1>2 DEF RiskInv, Requested, Called
<1> QED BY <1>1, <1>2, <1>3, PlaceCallKeeps

LEMMA InsideKeeps == ASSUME RiskInv, NEW t \in Threads, Inside(t) PROVE RiskInv'
BY CachedKeeps, TakeLockKeeps, FetchKeeps, NoWeatherKeeps, SearchedKeeps, ResolvedKeeps
   DEF Inside, CacheStep

LEMMA SearchKeeps ==
  ASSUME RiskInv, NEW t \in Threads, NEW p \in Searchable, Search(t, p) PROVE RiskInv'
<1>1. UNCHANGED <<clock, cache, context, recording, req>> /\ req[t] = None
  BY DEF Search, SearchPlaces
<1>2. CASE UNCHANGED call
  <2>1. call' = [call EXCEPT ![t] = call[t]]
    BY <1>2 DEF RiskInv, Requested
  <2>2. call[t] = None
    BY DEF Search, SearchPlaces
  <2> QED BY <1>1, <2>1, <2>2, PlaceCallKeeps
<1>3. CASE ~(UNCHANGED call)
  <2> DEFINE c == [step |-> "search", place |-> p, now |-> clock, old |-> searches[p]]
  <2>1. call' = [call EXCEPT ![t] = c] /\ c.step = "search"
    BY <1>3 DEF Search, SearchPlaces
  <2> HIDE DEF c
  <2>2. Called(c)
    BY <2>1 DEF Called
  <2> QED BY <1>1, <2>1, <2>2, PlaceCallKeeps
<1> QED BY <1>2, <1>3

LEMMA SelectPlaceKeeps ==
  ASSUME RiskInv, NEW t \in Threads, NEW p \in Searchable, SelectPlace(t, p) PROVE RiskInv'
<1>1. UNCHANGED <<clock, cache, context, recording, req>> /\ req[t] = None
  BY DEF SelectPlace
<1> DEFINE c == IF Fresh(presets[p], clock, GeoTtl) THEN [step |-> "resolved", place |-> p]
                ELSE [step |-> "resolve", place |-> p, now |-> clock, old |-> presets[p]]
<1>2. call' = [call EXCEPT ![t] = c]
  BY DEF SelectPlace, AskPreset
<1>3. Called(c)
  <2>1. c.step \in {"resolved", "resolve"} /\ c.place = p /\ p \in Places
    BY RiskAssumption
  <2> HIDE DEF c
  <2> QED BY <2>1 DEF Called
<1> HIDE DEF c
<1> QED BY <1>1, <1>2, <1>3, PlaceCallKeeps

-----------------------------------------------------------------------------
(* The device and the operators *)

\* A resolved place is one of the server's, or nothing that was asked for.
LEMMA OperateKeeps == ASSUME RiskInv, Operate PROVE RiskInv'
<1>1. Change /\ UNCHANGED cacheVars
  BY DEF Operate, SelectPreset, SelectModel, SetScenario, Activate, SaveProfile
<1>2. place' \in Places \cup {None} /\ model' \in {"default", "custom", "official"}
  BY DEF Operate, SelectPreset, SelectModel, SetScenario, Activate, SaveProfile, RiskInv, Kept
<1>3. CacheInv' /\ UNCHANGED clock /\ UNCHANGED call
  BY <1>1 DEF RiskInv, CacheInv, cacheVars
<1>4. call' = [u \in Threads |-> call'[u]] /\ \A u \in Threads : call'[u] \in {call[u], None}
  BY <1>3 DEF RiskInv, Requested
<1> QED BY <1>1, <1>2, <1>3, <1>4, ChangeKeeps

LEMMA SavePlaceKeeps == ASSUME RiskInv, NEW t \in Threads, SavePlace(t) PROVE RiskInv'
<1>1. Change /\ UNCHANGED <<clock, cache, model>> /\ call' = [call EXCEPT ![t] = None]
  BY DEF SavePlace
<1>2. place' \in Places \cup {None} /\ model' \in {"default", "custom", "official"}
  BY DEF SavePlace, At, RiskInv, Kept, Requested, Called
<1>3. call' = [u \in Threads |-> call'[u]] /\ \A u \in Threads : call'[u] \in {call[u], None}
  BY <1>1 DEF RiskInv, Requested
<1>4. CacheInv'
  BY <1>1 DEF RiskInv, CacheInv
<1> QED BY <1>1, <1>2, <1>3, <1>4, ChangeKeeps

\* A session that begins freezes something.
LEMMA StartKeeps == ASSUME RiskInv, NEW s \in Sessions, StartSession(s) PROVE RiskInv'
<1> DEFINE v == IF model = "official" THEN profile ELSE scenario
<1>1. /\ frozen[s] = None /\ v # None /\ frozen' = [frozen EXCEPT ![s] = v] /\ collecting' = s
      /\ UNCHANGED <<cacheVars, context, rows, req>>
  BY DEF StartSession
<1> HIDE DEF v
<1>2. UNCHANGED <<clock, cache, call, place, configured, model>>
  BY <1>1 DEF cacheVars, context
<1>3. /\ frozen' = [x \in Sessions |-> frozen'[x]] /\ frozen'[s] # None
      /\ \A x \in Sessions : frozen[x] # None => frozen'[x] = frozen[x]
  BY <1>1 DEF RiskInv, Kept
<1>4. Kept'
  BY <1>1, <1>2, <1>3 DEF RiskInv, Kept, Linked
<1>5. clock <= clock'
  BY <1>2 DEF RiskInv, Kept
<1> QED BY <1>1, <1>2, <1>3, <1>4, <1>5, RecordKeeps

LEMMA StopKeeps == ASSUME RiskInv, StopSession PROVE RiskInv'
<1>1. UNCHANGED <<clock, cache, call, context, frozen, rows, req>> /\ collecting' = None
  BY DEF StopSession, cacheVars
<1>2. Kept' /\ clock <= clock'
  BY <1>1 DEF RiskInv, Kept, Linked, context
<1> QED BY <1>1, <1>2, RecordKeeps

\* A row that is stored names the session that is active.
LEMMA UploadKeeps ==
  ASSUME RiskInv, NEW ok, NEW gap, Upload(ok, gap) PROVE RiskInv'
<1>1. UNCHANGED <<clock, cache, call, context, frozen, collecting, req>>
  BY DEF Upload, cacheVars
<1>2. PICK row : rows' = Append(rows, row) /\ row.session = collecting /\ row.id = Len(rows) + 1
  BY DEF Upload
<1>3. Linked(row)
  BY <1>2 DEF RiskInv, Kept, Linked
<1> DEFINE Stored == {rows[i] : i \in 1..Len(rows)}
<1>4. /\ rows' \in Seq(Stored \cup {row}) /\ Len(rows') = Len(rows) + 1 /\ Len(rows) \in Nat
      /\ \A i \in 1..Len(rows) : rows'[i] = rows[i]
      /\ rows'[Len(rows) + 1] = row
  <2>1. rows \in Seq(Stored \cup {row})
    <3>1. rows \in Seq(Stored)
      BY DEF RiskInv, Kept
    <3> HIDE DEF Stored
    <3> QED BY <3>1
  <2> HIDE DEF Stored
  <2> QED BY <1>2, <2>1
<1> HIDE DEF Stored
<1>5. \A i \in 1..Len(rows') : Linked(rows'[i])
  BY <1>2, <1>3, <1>4 DEF RiskInv, Kept
<1>6. rows' \in Seq({rows'[i] : i \in 1..Len(rows')})
  BY <1>4
<1>7. Kept' /\ clock <= clock'
  BY <1>1, <1>5, <1>6 DEF RiskInv, Kept, Linked, context
<1> QED BY <1>1, <1>7, RecordKeeps

\* Time passes.
LEMMA TickKeeps == ASSUME RiskInv, Tick, UNCHANGED <<context, recording, req>> PROVE RiskInv'
<1>1. clock \in Nat /\ clock' = clock + 1 /\ UNCHANGED <<cache, call>>
  BY DEF Tick, RiskInv, Kept
<1>2. Kept'
  BY <1>1 DEF RiskInv, Kept, Linked, context, recording
<1>3. \A s \in Sessions : frozen[s] # None => frozen'[s] = frozen[s]
  BY DEF recording
<1> QED BY <1>1, <1>2, <1>3, RecordKeeps

-----------------------------------------------------------------------------
(* get_risk(), read by read *)

\* A request begins with the last row of the device.
LEMMA BeginKeeps ==
  ASSUME RiskInv, NEW t \in Threads, NEW row, Linked(row), Begin(t, row)
  PROVE  RiskInv'
<1> DEFINE r == [step |-> "select", row |-> row, begun |-> clock, quiet |-> TRUE,
                 env |-> None, place |-> None, model |-> None, result |-> None]
<1>1. req' = [req EXCEPT ![t] = r] /\ UNCHANGED <<cacheVars, context, recording>>
  BY DEF Begin
<1>2. /\ Shaped(r) /\ r.step = "select" /\ r.begun = clock /\ r.row = row /\ r.env = None
  BY DEF Shaped
<1> HIDE DEF r
<1>3. Sound(r, call[t])
  BY <1>2 DEF Sound, Moment, RiskInv, Kept
<1> QED BY <1>1, <1>3, RequestKeeps

LEMMA BeginRiskKeeps == ASSUME RiskInv, NEW t \in Threads, BeginRisk(t) PROVE RiskInv'
<1>1. rows \in Seq({rows[i] : i \in 1..Len(rows)}) /\ rows # <<>>
  BY DEF BeginRisk, RiskInv, Kept
<1>2. Len(rows) \in 1..Len(rows)
  BY <1>1
<1>3. Linked(rows[Len(rows)])
  BY <1>2 DEF RiskInv, Kept
<1> QED BY <1>3, BeginKeeps DEF BeginRisk

LEMMA BeginEnvironmentKeeps == ASSUME RiskInv, NEW t \in Threads, BeginEnvironment(t) PROVE RiskInv'
BY BeginKeeps DEF BeginEnvironment, Linked

\* A request of which the step and one more field are written.
LEMMA Reshaped ==
  ASSUME NEW r, Shaped(r), NEW s, NEW x, NEW q
  PROVE  /\ q = [r EXCEPT !.env = x, !.step = s] =>
              q = [step |-> s, row |-> r.row, begun |-> r.begun, quiet |-> r.quiet,
                   env |-> x, place |-> r.place, model |-> r.model, result |-> r.result]
         /\ q = [r EXCEPT !.step = s, !.place = x] =>
              q = [step |-> s, row |-> r.row, begun |-> r.begun, quiet |-> r.quiet,
                   env |-> r.env, place |-> x, model |-> r.model, result |-> r.result]
         /\ q = [r EXCEPT !.step = s, !.model = x] =>
              q = [step |-> s, row |-> r.row, begun |-> r.begun, quiet |-> r.quiet,
                   env |-> r.env, place |-> r.place, model |-> x, result |-> r.result]
         /\ q = [r EXCEPT !.step = s, !.result = x] =>
              q = [step |-> s, row |-> r.row, begun |-> r.begun, quiet |-> r.quiet,
                   env |-> r.env, place |-> r.place, model |-> r.model, result |-> x]
<1>1. ASSUME q = [r EXCEPT !.env = x, !.step = s]
      PROVE  q = [step |-> s, row |-> r.row, begun |-> r.begun, quiet |-> r.quiet,
                  env |-> x, place |-> r.place, model |-> r.model, result |-> r.result]
  BY <1>1 DEF Shaped
<1>2. ASSUME q = [r EXCEPT !.step = s, !.place = x]
      PROVE  q = [step |-> s, row |-> r.row, begun |-> r.begun, quiet |-> r.quiet,
                  env |-> r.env, place |-> x, model |-> r.model, result |-> r.result]
  BY <1>2 DEF Shaped
<1>3. ASSUME q = [r EXCEPT !.step = s, !.model = x]
      PROVE  q = [step |-> s, row |-> r.row, begun |-> r.begun, quiet |-> r.quiet,
                  env |-> r.env, place |-> r.place, model |-> x, result |-> r.result]
  BY <1>3 DEF Shaped
<1>4. ASSUME q = [r EXCEPT !.step = s, !.result = x]
      PROVE  q = [step |-> s, row |-> r.row, begun |-> r.begun, quiet |-> r.quiet,
                  env |-> r.env, place |-> r.place, model |-> r.model, result |-> x]
  BY <1>4 DEF Shaped
<1> QED BY <1>1, <1>2, <1>3, <1>4

\* The request and its call leave the weather together.
LEMMA WithEnvironmentKeeps ==
  ASSUME RiskInv, NEW t \in Threads, UNCHANGED <<clock, cache, context, recording>>,
         req[t] # None, req[t].step \in {"select", "weather"},
         NEW env, WithEnvironment(t, env), env # None => FreshFor(env, req[t].begun),
         call' = [u \in Threads |-> call'[u]], \A u \in Threads \ {t} : call'[u] = call[u],
         call'[t] # None => Called(call'[t]),
         req[t].quiet =>
           /\ Selected = "default" => env.place = WeatherPlace
           /\ Selected = "custom" => env.kind = "manual" /\ env.place = scenario
           /\ Selected = "official" =>
                env.kind = "manual" /\ env.place = profile /\ profile = active
  PROVE  RiskInv'
<1> DEFINE r == req[t]
           step == IF req[t].row = None THEN "shown" ELSE "place"
           q == [req[t] EXCEPT !.env = env, !.step = step]
<1>1. Sound(r, call[t]) /\ req' = [req EXCEPT ![t] = q]
  BY DEF RiskInv, Requested, WithEnvironment
<1> HIDE DEF step
<1>2. /\ Shaped(q) /\ q.row = r.row /\ q.begun = r.begun /\ q.quiet = r.quiet /\ q.env = env
      /\ q.step = step /\ q.place = r.place /\ q.model = r.model /\ q.result = r.result
  <2>1. Shaped(r) /\ q = [r EXCEPT !.env = env, !.step = step]
    BY <1>1 DEF Sound
  <2> HIDE DEF q, r
  <2>2. q = [step |-> step, row |-> r.row, begun |-> r.begun, quiet |-> r.quiet,
             env |-> env, place |-> r.place, model |-> r.model, result |-> r.result]
    BY <2>1, Reshaped DEF Shaped
  <2> QED BY <2>2 DEF Shaped
<1> HIDE DEF q, r
<1>3. Moment(q) \/ ~r.quiet
  BY <1>2 DEF Moment, r, step
<1>4. Sound(q, call'[t])
  BY <1>1, <1>2, <1>3 DEF Sound, r, step
<1>5. /\ req' = [u \in Threads |-> req'[u]] /\ req'[t] = q
      /\ \A u \in Threads \ {t} : req'[u] = req[u]
  BY <1>1, Put DEF RiskInv, Requested
<1>6. CacheInv'
  BY DEF RiskInv, CacheInv
<1> QED BY <1>4, <1>5, <1>6, ServingKeeps

\* A request that is refused says nothing.
LEMMA RefuseKeeps ==
  ASSUME RiskInv, NEW t \in Threads, UNCHANGED <<cacheVars, context, recording>>,
         req[t] # None, Refuse(t)
  PROVE  RiskInv'
<1> DEFINE r == req[t]
           q == [req[t] EXCEPT !.step = "refused"]
<1>1. Sound(r, call[t]) /\ req' = [req EXCEPT ![t] = q]
  BY DEF RiskInv, Requested, Refuse
<1>2. /\ Shaped(q) /\ q.row = r.row /\ q.begun = r.begun /\ q.quiet = r.quiet /\ q.env = r.env
      /\ q.step = "refused"
  BY <1>1 DEF Sound, Shaped
<1> HIDE DEF q, r
<1>3. Sound(q, call[t])
  BY <1>1, <1>2 DEF Sound, Moment
<1> QED BY <1>1, <1>3, RequestKeeps

\* An environment that is known at once.
LEMMA AtOnceKeeps ==
  ASSUME RiskInv, NEW t \in Threads, UNCHANGED <<cacheVars, context, recording>>,
         Doing(t, "select"), NEW env, WithEnvironment(t, env), env.kind # "live",
         /\ Selected = "default" => env.place = WeatherPlace
         /\ Selected = "custom" => env.kind = "manual" /\ env.place = scenario
         /\ Selected = "official" => env.kind = "manual" /\ env.place = profile /\ profile = active
  PROVE  RiskInv'
<1>1. UNCHANGED <<clock, cache, context, recording>> /\ UNCHANGED call
  BY DEF cacheVars
<1>2. /\ call' = [u \in Threads |-> call'[u]] /\ \A u \in Threads \ {t} : call'[u] = call[u]
      /\ (call'[t] # None => Called(call'[t]))
  BY <1>1 DEF RiskInv, Requested
<1>3. FreshFor(env, req[t].begun)
  BY DEF FreshFor
<1>4. req[t] # None /\ req[t].step \in {"select", "weather"}
  BY DEF Doing
<1> QED BY <1>1, <1>2, <1>3, <1>4, WithEnvironmentKeeps

LEMMA OfficialEnvironmentKeeps ==
  ASSUME RiskInv, NEW t \in Threads, OfficialEnvironment(t) PROVE RiskInv'
<1> DEFINE env == Weather("manual", profile, None)
<1>1. env.kind = "manual" /\ env.place = profile
  BY DEF Weather
<1> HIDE DEF env
<1>2. CASE WithEnvironment(t, env) /\ profile = active
  BY <1>1, <1>2, AtOnceKeeps DEF OfficialEnvironment
<1>3. CASE Refuse(t)
  BY <1>3, RefuseKeeps DEF OfficialEnvironment, Doing
<1> QED BY <1>2, <1>3 DEF OfficialEnvironment, env

LEMMA CustomEnvironmentKeeps ==
  ASSUME RiskInv, NEW t \in Threads, CustomEnvironment(t) PROVE RiskInv'
<1> DEFINE env == Weather("manual", scenario, None)
<1>1. env.kind = "manual" /\ env.place = scenario
  BY DEF Weather
<1> HIDE DEF env
<1>2. CASE WithEnvironment(t, env)
  BY <1>1, <1>2, AtOnceKeeps DEF CustomEnvironment
<1>3. CASE Refuse(t)
  BY <1>3, RefuseKeeps DEF CustomEnvironment, Doing
<1> QED BY <1>2, <1>3 DEF CustomEnvironment, env

LEMMA DemoEnvironmentKeeps ==
  ASSUME RiskInv, NEW t \in Threads, DemoEnvironment(t) PROVE RiskInv'
<1> DEFINE env == Weather("demo", None, None)
<1>1. env.kind = "demo" /\ env.place = WeatherPlace
  BY DEF Weather, DemoEnvironment
<1>2. WithEnvironment(t, env) /\ Selected = "default" /\ Doing(t, "select")
      /\ UNCHANGED <<cacheVars, context, recording>>
  BY DEF DemoEnvironment
<1> HIDE DEF env
<1> QED BY <1>1, <1>2, AtOnceKeeps

\* A request asks for the weather of the place it read, at the time it asks.
LEMMA AskEnvironmentKeeps ==
  ASSUME RiskInv, NEW t \in Threads, AskEnvironment(t) PROVE RiskInv'
<1> DEFINE r == req[t]
           q == [req[t] EXCEPT !.step = "weather"]
           c == [step |-> "lock", place |-> WeatherPlace, now |-> clock]
<1>1. /\ r # None /\ r.step = "select" /\ Selected = "default" /\ WeatherPlace # None
      /\ req' = [req EXCEPT ![t] = q] /\ call' = [call EXCEPT ![t] = c]
      /\ UNCHANGED <<clock, cache, context, recording>>
  BY DEF AskEnvironment, AskWeather, Goto, Doing
<1>2. Sound(r, call[t]) /\ clock \in Nat /\ WeatherPlace \in Places
  BY <1>1 DEF RiskInv, Requested, Kept, WeatherPlace
<1>3. /\ Shaped(q) /\ q.row = r.row /\ q.begun = r.begun /\ q.quiet = r.quiet /\ q.env = r.env
      /\ q.step = "weather"
  BY <1>2 DEF Sound, Shaped
<1>4. c.step = "lock" /\ c.place = WeatherPlace /\ c.now = clock
  OBVIOUS
<1> HIDE DEF q, r, c
<1>5. Called(c)
  BY <1>2, <1>4 DEF Called
<1>6. Calling(q, c)
  BY <1>1, <1>2, <1>3, <1>4 DEF Calling, Sound
<1>7. Sound(q, c)
  BY <1>2, <1>3, <1>6 DEF Sound, Moment
<1>8. /\ req' = [u \in Threads |-> req'[u]] /\ req'[t] = q
      /\ \A u \in Threads \ {t} : req'[u] = req[u]
  BY <1>1, Put DEF RiskInv, Requested
<1>9. /\ call' = [u \in Threads |-> call'[u]] /\ call'[t] = c
      /\ \A u \in Threads \ {t} : call'[u] = call[u]
  BY <1>1, Put DEF RiskInv, Requested
<1>10. CacheInv'
  BY <1>1 DEF RiskInv, CacheInv
<1> QED BY <1>1, <1>5, <1>7, <1>8, <1>9, <1>10, ServingKeeps

LEMMA TakeEnvironmentKeeps ==
  ASSUME RiskInv, NEW t \in Threads, TakeEnvironment(t) PROVE RiskInv'
<1>1. /\ req[t] # None /\ req[t].step = "weather" /\ call[t] # None /\ call[t].step = "returned"
      /\ WithEnvironment(t, call[t].answer) /\ call' = [call EXCEPT ![t] = None]
      /\ UNCHANGED <<clock, cache, context, recording>>
  BY DEF TakeEnvironment, Doing, At
<1>2. Calling(req[t], call[t])
  BY <1>1 DEF RiskInv, Requested, Sound
<1>3. /\ FreshFor(call[t].answer, req[t].begun)
      /\ req[t].quiet => call[t].answer.place = WeatherPlace /\ Selected = "default"
  BY <1>1, <1>2 DEF Calling
<1>4. /\ call' = [u \in Threads |-> call'[u]] /\ call'[t] = None
      /\ \A u \in Threads \ {t} : call'[u] = call[u]
  BY <1>1, Put DEF RiskInv, Requested
<1> DEFINE env == call[t].answer
<1> HIDE DEF env
<1> QED BY <1>1, <1>3, <1>4, WithEnvironmentKeeps

LEMMA ReadPlaceKeeps == ASSUME RiskInv, NEW t \in Threads, ReadPlace(t) PROVE RiskInv'
<1> DEFINE r == req[t]
           q == [req[t] EXCEPT !.step = "model", !.place = place]
<1>1. /\ r # None /\ r.step = "place" /\ req' = [req EXCEPT ![t] = q]
      /\ UNCHANGED <<cacheVars, context, recording>>
  BY DEF ReadPlace, Doing
<1>2. Sound(r, call[t])
  BY <1>1 DEF RiskInv, Requested
<1>3. /\ Shaped(q) /\ q.row = r.row /\ q.begun = r.begun /\ q.quiet = r.quiet /\ q.env = r.env
      /\ q.step = "model" /\ q.place = place
  <2>1. Shaped(r) /\ q = [r EXCEPT !.step = "model", !.place = place]
    BY <1>2 DEF Sound
  <2> HIDE DEF q, r
  <2>2. q = [step |-> "model", row |-> r.row, begun |-> r.begun, quiet |-> r.quiet,
             env |-> r.env, place |-> place, model |-> r.model, result |-> r.result]
    BY <2>1, Reshaped DEF Shaped
  <2> QED BY <2>2 DEF Shaped
<1> HIDE DEF q, r
<1>4. Sound(q, call[t])
  BY <1>1, <1>2, <1>3 DEF Sound, Moment
<1> QED BY <1>1, <1>4, RequestKeeps

LEMMA ReadModelKeeps == ASSUME RiskInv, NEW t \in Threads, ReadModel(t) PROVE RiskInv'
<1> DEFINE r == req[t]
           m == Selected
           q == [req[t] EXCEPT !.step = "history", !.model = m]
<1>1. /\ r # None /\ r.step = "model" /\ req' = [req EXCEPT ![t] = q]
      /\ UNCHANGED <<cacheVars, context, recording>>
  BY DEF ReadModel, Doing
<1>2. Sound(r, call[t])
  BY <1>1 DEF RiskInv, Requested
<1> HIDE DEF m
<1>3. /\ Shaped(q) /\ q.row = r.row /\ q.begun = r.begun /\ q.quiet = r.quiet /\ q.env = r.env
      /\ q.step = "history" /\ q.place = r.place /\ q.model = m
  <2>1. Shaped(r) /\ q = [r EXCEPT !.step = "history", !.model = m]
    BY <1>2 DEF Sound
  <2> HIDE DEF q, r
  <2>2. q = [step |-> "history", row |-> r.row, begun |-> r.begun, quiet |-> r.quiet,
             env |-> r.env, place |-> r.place, model |-> m, result |-> r.result]
    BY <2>1, Reshaped DEF Shaped
  <2> QED BY <2>2 DEF Shaped
<1> HIDE DEF q, r
<1>4. Sound(q, call[t])
  BY <1>1, <1>2, <1>3 DEF Sound, Moment, m
<1> QED BY <1>1, <1>4, RequestKeeps

\* An answer whose basis is the one of the model that was chosen.
LEMMA AnswerKeeps ==
  ASSUME RiskInv, NEW t \in Threads, UNCHANGED <<cacheVars, context, recording>>,
         Doing(t, "history"), NEW result, Done(t, result),
         ~result.degraded => req[t].model = "default" /\ req[t].row.ok /\ req[t].env.kind = "live",
         req[t].model = "custom" => result.basis = scenario,
         req[t].model = "official" => result.basis = active,
         req[t].row.session # None =>
           (req[t].model = "custom" \/ (req[t].model = "official" /\ frozen[req[t].row.session] \in Artifacts)
              => result.basis = frozen[req[t].row.session])
  PROVE  RiskInv'
<1> DEFINE r == req[t]
           q == [req[t] EXCEPT !.step = "answered", !.result = result]
<1>1. r # None /\ r.step = "history" /\ req' = [req EXCEPT ![t] = q]
  BY DEF Done, Doing
<1>2. Sound(r, call[t])
  BY <1>1 DEF RiskInv, Requested
<1>3. /\ Shaped(q) /\ q.row = r.row /\ q.begun = r.begun /\ q.quiet = r.quiet /\ q.env = r.env
      /\ q.step = "answered" /\ q.place = r.place /\ q.model = r.model /\ q.result = result
  <2>1. Shaped(r) /\ q = [r EXCEPT !.step = "answered", !.result = result]
    BY <1>2 DEF Sound
  <2> HIDE DEF q, r
  <2>2. q = [step |-> "answered", row |-> r.row, begun |-> r.begun, quiet |-> r.quiet,
             env |-> r.env, place |-> r.place, model |-> r.model, result |-> result]
    BY <2>1, Reshaped DEF Shaped
  <2> QED BY <2>2 DEF Shaped
<1> HIDE DEF q
<1>4. Outcome(q)
  BY <1>3 DEF Outcome
<1> HIDE DEF r
<1>5. Moment(q) \/ ~q.quiet
  BY <1>1, <1>2, <1>3 DEF Sound, Moment, r
<1>6. Sound(q, call[t])
  BY <1>1, <1>2, <1>3, <1>4, <1>5 DEF Sound
<1> QED BY <1>1, <1>6, RequestKeeps

LEMMA DefaultAnswerKeeps == ASSUME RiskInv, NEW t \in Threads, DefaultAnswer(t) PROVE RiskInv'
<1> DEFINE result == Result(req[t], None, TRUE, ~ModelLoaded, FALSE)
<1>1. ~result.degraded => req[t].row.ok /\ req[t].env.kind = "live"
  BY DEF Result
<1>2. /\ Done(t, result) /\ req[t].model = "default" /\ Doing(t, "history")
      /\ UNCHANGED <<cacheVars, context, recording>>
  BY DEF DefaultAnswer
<1> HIDE DEF result
<1> QED BY <1>1, <1>2, AnswerKeeps

LEMMA CustomAnswerKeeps == ASSUME RiskInv, NEW t \in Threads, CustomAnswer(t) PROVE RiskInv'
<1> DEFINE late == ~IsFresh(req[t].row, clock)
           result == Result(req[t], scenario, FALSE, TRUE, late)
<1>1. result.degraded /\ result.basis = scenario
  BY DEF Result
<1>2. /\ req[t] # None /\ req[t].model = "custom" /\ Doing(t, "history")
      /\ UNCHANGED <<cacheVars, context, recording>>
  BY DEF CustomAnswer, Doing
<1> HIDE DEF late
<1>3. (Done(t, result) /\ CustomServes(req[t])) \/ Refuse(t)
  BY DEF CustomAnswer, late
<1> HIDE DEF result
<1>4. CASE Done(t, result) /\ CustomServes(req[t])
  BY <1>1, <1>2, <1>4, AnswerKeeps DEF CustomServes, SessionAdmits
<1>5. CASE Refuse(t)
  BY <1>2, <1>5, RefuseKeeps
<1> QED BY <1>3, <1>4, <1>5

LEMMA OfficialAnswerKeeps == ASSUME RiskInv, NEW t \in Threads, OfficialAnswer(t) PROVE RiskInv'
<1> DEFINE late == ~IsFresh(req[t].row, clock)
           result == Result(req[t], active, FALSE, TRUE, late)
<1>1. result.degraded /\ result.basis = active
  BY DEF Result
<1>2. /\ req[t] # None /\ req[t].model = "official" /\ Doing(t, "history")
      /\ UNCHANGED <<cacheVars, context, recording>>
  BY DEF OfficialAnswer, Doing
<1> HIDE DEF late
<1>3. (Done(t, result) /\ ProfileOf(req[t].row) = active) \/ Refuse(t)
  BY DEF OfficialAnswer, late
<1> HIDE DEF result
<1>4. CASE Done(t, result) /\ ProfileOf(req[t].row) = active
  BY <1>1, <1>2, <1>4, AnswerKeeps DEF ProfileOf
<1>5. CASE Refuse(t)
  BY <1>2, <1>5, RefuseKeeps
<1> QED BY <1>3, <1>4, <1>5

LEMMA RespondKeeps == ASSUME RiskInv, NEW t \in Threads, Respond(t) PROVE RiskInv'
BY RequestKeeps DEF Respond

LEMMA ServeKeeps == ASSUME RiskInv, NEW t \in Threads, Serve(t) PROVE RiskInv'
BY OfficialEnvironmentKeeps, CustomEnvironmentKeeps, DemoEnvironmentKeeps, AskEnvironmentKeeps,
   TakeEnvironmentKeeps, ReadPlaceKeeps, ReadModelKeeps, DefaultAnswerKeeps, CustomAnswerKeeps,
   OfficialAnswerKeeps, RespondKeeps DEF Serve

-----------------------------------------------------------------------------
(* The theorems *)

LEMMA RiskInit == Init => RiskInv
<1> SUFFICES ASSUME Init PROVE RiskInv
  OBVIOUS
<1>1. CacheInv
  BY DEF Init, CacheInit, CacheInv
<1>2. Kept
  BY DEF Init, CacheInit, Kept, Linked
<1>3. Requested
  BY DEF Init, CacheInit, Requested
<1> QED BY <1>1, <1>2, <1>3 DEF RiskInv

LEMMA RiskStep == RiskInv /\ [Next]_vars => RiskInv'
<1> SUFFICES ASSUME RiskInv, [Next]_vars PROVE RiskInv'
  OBVIOUS
<1>1. CASE UNCHANGED vars
  <2>1. UNCHANGED <<cache, call, context, req, clock, frozen, rows, collecting>>
    BY <1>1 DEF vars, cacheVars, recording
  <2>2. Kept' /\ clock <= clock'
    BY <2>1 DEF RiskInv, Kept, Linked, context
  <2> QED BY <2>1, <2>2, RecordKeeps
<1>2. CASE Next
  <2>1. ASSUME NEW t \in Threads,
               \/ BeginRisk(t) \/ BeginEnvironment(t) \/ Serve(t) \/ Inside(t) \/ SavePlace(t)
               \/ \E p \in Searchable : SelectPlace(t, p) \/ Search(t, p)
        PROVE  RiskInv'
    BY <2>1, BeginRiskKeeps, BeginEnvironmentKeeps, ServeKeeps, InsideKeeps, SavePlaceKeeps,
       SelectPlaceKeeps, SearchKeeps
  <2>2. CASE Operate
    BY <2>2, OperateKeeps
  <2>3. CASE Record
    BY <2>3, StartKeeps, StopKeeps, UploadKeeps DEF Record
  <2>4. CASE Tick /\ UNCHANGED <<context, recording, req>>
    BY <2>4, TickKeeps
  <2> QED BY <1>2, <2>1, <2>2, <2>3, <2>4 DEF Next
<1> QED BY <1>1, <1>2

\* The inductive invariant holds in every reachable state: what a request has
\* read, and what its answer says, stays sound under uploads and operators.
THEOREM RiskInvariance == Spec => []RiskInv
BY RiskInit, RiskStep, PTL DEF Spec

\* Weather that is not marked stale was less than the cache's ten minutes old
\* when the request arrived, and only it, with a healthy frame, gives a risk that
\* is not degraded, and from the baseline: environment.py, main.py get_risk().
THEOREM WeatherIsFresh == Spec => []LiveIsFresh
<1>1. RiskInv => LiveIsFresh
  <2> SUFFICES ASSUME RiskInv, NEW t \in Threads, req[t] # None
               PROVE  /\ req[t].env # None /\ req[t].env.kind = "live" =>
                           req[t].begun - req[t].env.fetched < Ttl
                      /\ Answered(t) /\ ~req[t].result.degraded =>
                           req[t].model = "default" /\ req[t].row.ok /\ req[t].env.kind = "live"
    BY DEF LiveIsFresh, Answered, Doing
  <2>1. Sound(req[t], call[t])
    BY DEF RiskInv, Requested
  <2>2. req[t].env # None /\ req[t].env.kind = "live" => req[t].begun - req[t].env.fetched < Ttl
    BY <2>1 DEF Sound, FreshFor
  <2>3. Answered(t) => Outcome(req[t])
    BY <2>1 DEF Sound, Answered, Doing
  <2> QED BY <2>2, <2>3 DEF Outcome
<1> QED BY <1>1, RiskInvariance, PTL

\* The basis of a custom answer is the scenario the row's session froze, of an
\* official one the artifact of the profile it froze.
THEOREM AnswersKeepTheirContext == Spec => []FrozenContext
<1>1. RiskInv => FrozenContext
  <2> SUFFICES ASSUME RiskInv, NEW t \in Threads, Answered(t), req[t].row.session # None,
                      req[t].model = "custom"
                        \/ (req[t].model = "official" /\ frozen[req[t].row.session] \in Artifacts)
               PROVE  req[t].result.basis = frozen[req[t].row.session]
    BY DEF FrozenContext
  <2>1. Outcome(req[t])
    BY DEF RiskInv, Requested, Sound, Answered, Doing
  <2> QED BY <2>1 DEF Outcome
<1> QED BY <1>1, RiskInvariance, PTL

\* Under a request that nothing was changed under, the environment is of the model
\* that answers and of the place the baseline is told, or the configured one.
THEOREM QuietAnswersAgree == Spec => []QuietIsOfOneMoment
<1>1. RiskInv => QuietIsOfOneMoment
  <2> SUFFICES ASSUME RiskInv, NEW t \in Threads, Answered(t), req[t].quiet
               PROVE  /\ req[t].model = Selected
                      /\ IF req[t].model = "default" THEN
                           req[t].env.place =
                             IF req[t].place # None THEN req[t].place ELSE configured
                         ELSE req[t].env.kind = "manual" /\ req[t].env.place = req[t].result.basis
    BY DEF QuietIsOfOneMoment
  <2>1. Moment(req[t]) /\ req[t].step = "answered"
    BY DEF RiskInv, Requested, Sound, Answered, Doing
  <2>2. Selected \in {"default", "custom", "official"}
    BY DEF RiskInv, Kept, Selected
  <2> QED BY <2>1, <2>2 DEF Moment, WeatherPlace
<1> QED BY <1>1, RiskInvariance, PTL

-----------------------------------------------------------------------------
(* The live window *)

\* Rows are known by their position, and a request began with one of them.
Anchored ==
  /\ \A i \in 1..Len(rows) : rows[i].id = i
  /\ \A t \in Threads : req[t] # None /\ req[t].row # None =>
       req[t].row.id \in 1..Len(rows) /\ rows[req[t].row.id] = req[t].row

\* Steps that store no row and begin no request.
Continued == /\ UNCHANGED rows
             /\ \A t \in Threads : req'[t] # None => req[t] # None /\ req'[t].row = req[t].row

LEMMA ContinuedKeeps == ASSUME Anchored, Continued PROVE Anchored'
BY DEF Anchored, Continued

\* Writing other fields of a request leaves its row.
LEMMA RowStays ==
  ASSUME NEW r, Shaped(r), NEW a, NEW b
  PROVE  /\ [r EXCEPT !.step = a].row = r.row
         /\ [r EXCEPT !.quiet = a].row = r.row
         /\ [r EXCEPT !.env = a, !.step = b].row = r.row
         /\ [r EXCEPT !.step = a, !.place = b].row = r.row
         /\ [r EXCEPT !.step = a, !.model = b].row = r.row
         /\ [r EXCEPT !.step = a, !.result = b].row = r.row
BY DEF Shaped

\* A request's record is written at one place.
LEMMA WriteContinues ==
  ASSUME RiskInv, NEW t \in Threads, req[t] # None, NEW r, r.row = req[t].row,
         req' = [req EXCEPT ![t] = r], UNCHANGED rows
  PROVE  Continued
BY DEF Continued, RiskInv, Requested

LEMMA ServeContinues == ASSUME RiskInv, NEW t \in Threads, Serve(t) PROVE Continued
<1>1. req = [u \in Threads |-> req[u]] /\ UNCHANGED rows
  BY DEF RiskInv, Requested, Serve, OfficialEnvironment, CustomEnvironment, DemoEnvironment, AskEnvironment,
         TakeEnvironment, ReadPlace, ReadModel, DefaultAnswer, CustomAnswer, OfficialAnswer, Respond, recording
<1>2. req[t] # None /\ Shaped(req[t])
  BY DEF RiskInv, Requested, Sound, Serve, OfficialEnvironment, CustomEnvironment, DemoEnvironment, AskEnvironment,
         TakeEnvironment, ReadPlace, ReadModel, DefaultAnswer, CustomAnswer, OfficialAnswer, Respond, Doing
<1>3. \A s : req' = [req EXCEPT ![t] = [@ EXCEPT !.step = s]] => Continued
  <2>. TAKE s
  <2>. DEFINE r == [req[t] EXCEPT !.step = s]
  <2>1. r.row = req[t].row
    BY <1>2, RowStays
  <2>. HIDE DEF r
  <2>2. req' = [req EXCEPT ![t] = r] => Continued
    BY <1>1, <1>2, <2>1, WriteContinues
  <2>. QED  BY <2>2 DEF r
<1>4. \A env : WithEnvironment(t, env) => Continued
  <2>. TAKE env
  <2>. DEFINE s == IF req[t].row = None THEN "shown" ELSE "place"
              r == [req[t] EXCEPT !.env = env, !.step = s]
  <2>1. r.row = req[t].row
    <3>. HIDE DEF s
    <3>. QED  BY <1>2, RowStays
  <2>2. WithEnvironment(t, env) => req' = [req EXCEPT ![t] = r]
    BY DEF WithEnvironment
  <2>. HIDE DEF r
  <2>. QED  BY <1>1, <1>2, <2>1, <2>2, WriteContinues
<1>5. \A result : Done(t, result) => Continued
  <2>. TAKE result
  <2>. DEFINE r == [req[t] EXCEPT !.step = "answered", !.result = result]
  <2>1. r.row = req[t].row
    BY <1>2, RowStays
  <2>2. Done(t, result) => req' = [req EXCEPT ![t] = r]
    BY DEF Done
  <2>. HIDE DEF r
  <2>. QED  BY <1>1, <1>2, <2>1, <2>2, WriteContinues
<1>6. ReadPlace(t) \/ ReadModel(t) => Continued
  <2>. DEFINE r == [req[t] EXCEPT !.step = "model", !.place = place]
              q == [req[t] EXCEPT !.step = "history", !.model = Selected]
  <2>1. r.row = req[t].row /\ q.row = req[t].row
    BY <1>2, RowStays
  <2>2. /\ ReadPlace(t) => req' = [req EXCEPT ![t] = r]
        /\ ReadModel(t) => req' = [req EXCEPT ![t] = q]
    BY DEF ReadPlace, ReadModel
  <2>. HIDE DEF r, q
  <2>. QED  BY <1>1, <1>2, <2>1, <2>2, WriteContinues
<1>7. Respond(t) => Continued
  BY <1>1 DEF Respond, Continued
<1>. QED  BY <1>3, <1>4, <1>5, <1>6, <1>7 DEF Serve, OfficialEnvironment, CustomEnvironment, DemoEnvironment,
        AskEnvironment, TakeEnvironment, DefaultAnswer, CustomAnswer, OfficialAnswer, Refuse, Goto

LEMMA ChangeContinues == ASSUME RiskInv, Change PROVE Continued
<1>. SUFFICES ASSUME NEW u \in Threads, req'[u] # None PROVE req[u] # None /\ req'[u].row = req[u].row
  BY DEF Change, recording, Continued
<1>1. req'[u] = IF req[u] = None THEN None ELSE [req[u] EXCEPT !.quiet = FALSE]
  BY DEF Change
<1>2. req[u] # None /\ Shaped(req[u])
  BY <1>1 DEF RiskInv, Requested, Sound
<1>. QED  BY <1>1, <1>2, RowStays

LEMMA BeginAnchors == ASSUME RiskInv, Anchored, NEW t \in Threads, NEW row, Begin(t, row),
                             row = None \/ (row.id \in 1..Len(rows) /\ rows[row.id] = row)
                      PROVE  Anchored'
BY DEF Anchored, Begin, recording, RiskInv, Requested

LEMMA UploadAnchors == ASSUME RiskInv, Anchored, NEW ok, NEW gap, Upload(ok, gap) PROVE Anchored'
<1>1. PICK row : rows' = Append(rows, row) /\ row.id = Len(rows) + 1
  BY DEF Upload
<1>2. UNCHANGED req
  BY DEF Upload
<1>. DEFINE Stored == {rows[i] : i \in 1..Len(rows)}
<1>3. rows \in Seq(Stored)
  BY DEF RiskInv, Kept
<1>. HIDE DEF Stored
<1>4. rows \in Seq(Stored \cup {row})
  BY <1>3
<1>5. /\ Len(rows') = Len(rows) + 1 /\ Len(rows) \in Nat
      /\ \A i \in 1..Len(rows) : rows'[i] = rows[i]
      /\ rows'[Len(rows) + 1] = row
  BY <1>1, <1>4
<1>. QED  BY <1>1, <1>2, <1>5 DEF Anchored

LEMMA AnchorStep == RiskInv /\ Anchored /\ [Next]_vars => Anchored'
<1>. SUFFICES ASSUME RiskInv, Anchored, [Next]_vars PROVE Anchored'
  OBVIOUS
<1>1. CASE UNCHANGED vars
  BY <1>1 DEF vars, recording, Anchored
<1>2. ASSUME NEW t \in Threads, BeginRisk(t) PROVE Anchored'
  <2>1. rows \in Seq({rows[i] : i \in 1..Len(rows)}) /\ rows # <<>>
    BY <1>2 DEF BeginRisk, RiskInv, Kept
  <2>2. Len(rows) \in 1..Len(rows)
    BY <2>1
  <2>3. rows[Len(rows)].id = Len(rows)
    BY <2>2 DEF Anchored
  <2>. QED  BY <1>2, <2>2, <2>3, BeginAnchors DEF BeginRisk
<1>3. ASSUME NEW t \in Threads, BeginEnvironment(t) PROVE Anchored'
  BY <1>3, BeginAnchors DEF BeginEnvironment
<1>4. ASSUME NEW t \in Threads, Serve(t) PROVE Anchored'
  BY <1>4, ServeContinues, ContinuedKeeps
<1>5. ASSUME NEW t \in Threads, Inside(t) PROVE Anchored'
  BY <1>5 DEF Inside, recording, Anchored
<1>6. ASSUME NEW t \in Threads, SavePlace(t) PROVE Anchored'
  BY <1>6, ChangeContinues, ContinuedKeeps DEF SavePlace
<1>7. ASSUME NEW t \in Threads, NEW p, SelectPlace(t, p) \/ Search(t, p) PROVE Anchored'
  BY <1>7 DEF SelectPlace, Search, recording, Anchored
<1>8. ASSUME Operate PROVE Anchored'
  BY <1>8, ChangeContinues, ContinuedKeeps DEF Operate, SelectPreset, SelectModel, SetScenario, Activate, SaveProfile
<1>9. ASSUME Record PROVE Anchored'
  <2>1. ASSUME NEW ok, NEW gap, Upload(ok, gap) PROVE Anchored'
    BY <2>1, UploadAnchors
  <2>2. ASSUME NEW s, StartSession(s) \/ StopSession PROVE Anchored'
    BY <2>2 DEF StartSession, StopSession, Anchored
  <2>. QED  BY <1>9, <2>1, <2>2 DEF Record
<1>10. ASSUME Tick, UNCHANGED <<context, recording, req>> PROVE Anchored'
  BY <1>10 DEF recording, Anchored
<1>. QED  BY <1>1, <1>2, <1>3, <1>4, <1>5, <1>6, <1>7, <1>8, <1>9, <1>10 DEF Next

\* The positions that an interval picks, one after the other.
LEMMA PickedInterval ==
  ASSUME NEW s, NEW a \in Nat, NEW b \in Nat, a <= b + 1
  PROVE  Picked(s, a..b) = [k \in 1..b - a + 1 |-> s[a + k - 1]]
<1>1. Cardinality(a..b) = b - a + 1
  BY FS_Interval
<1>2. ASSUME NEW k \in 1..b - a + 1
      PROVE  s[CHOOSE i \in a..b : Cardinality({j \in a..b : j < i}) = k - 1] = s[a + k - 1]
  <2>1. ASSUME NEW i \in a..b PROVE Cardinality({j \in a..b : j < i}) = i - a
    <3>1. {j \in a..b : j < i} = a..i - 1
      OBVIOUS
    <3>2. i - 1 \in Int /\ a \in Int
      OBVIOUS
    <3>3. Cardinality(a..i - 1) = IF a > i - 1 THEN 0 ELSE i - 1 - a + 1
      BY <3>2, FS_Interval
    <3>. DEFINE c == Cardinality(a..i - 1)
    <3>4. c = i - a
      <4>. HIDE DEF c
      <4>1. c = IF a > i - 1 THEN 0 ELSE i - 1 - a + 1
        BY <3>3 DEF c
      <4>. QED  BY <4>1
    <3>. QED  BY <3>1, <3>4
  <2>2. a + k - 1 \in a..b
    OBVIOUS
  <2>. QED  BY <2>1, <2>2
<1>. QED  BY <1>1, <1>2 DEF Picked

\* The chain of a request is the stored rows from its own back to the first.
LEMMA ChainIsStored ==
  ASSUME RiskInv, Anchored, NEW n \in 1..Len(rows)
  PROVE  LiveChain(rows[n], History) = [k \in 1..n |-> rows[n - k + 1]]
<1>. DEFINE L == Len(rows)
            S == {i \in DOMAIN History : History[i].id < rows[n].id}
<1>1. L \in Nat
  BY DEF RiskInv, Kept
<1>2. History = [i \in 1..L |-> rows[L - i + 1]]
  BY DEF History, Reverse
<1>3. S = L - n + 2..L
  <2>1. DOMAIN History = 1..L
    BY <1>2
  <2>2. ASSUME NEW i \in 1..L PROVE History[i].id = L - i + 1
    BY <1>1, <1>2 DEF Anchored
  <2>3. rows[n].id = n
    BY DEF Anchored
  <2>. QED  BY <1>1, <2>1, <2>2, <2>3
<1>4. Picked(History, S) = [k \in 1..n - 1 |-> History[L - n + k + 1]]
  <2>. DEFINE a == L - n + 2
  <2>1. a \in Nat /\ a <= L + 1 /\ L - a + 1 = n - 1 /\ \A k \in 1..n - 1 : a + k - 1 = L - n + k + 1
    BY <1>1
  <2>2. S = a..L
    BY <1>3
  <2>. HIDE DEF a, S
  <2>3. Picked(History, a..L) = [k \in 1..L - a + 1 |-> History[a + k - 1]]
    BY <1>1, <2>1, PickedInterval
  <2>. QED  BY <2>1, <2>2, <2>3
<1>5. Picked(History, S) = [k \in 1..n - 1 |-> rows[n - k]]
  <2>1. ASSUME NEW k \in 1..n - 1 PROVE History[L - n + k + 1] = rows[n - k]
    BY <1>1, <1>2
  <2>. HIDE DEF S
  <2>. QED  BY <1>4, <2>1
<1>. DEFINE older == [k \in 1..n - 1 |-> rows[n - k]]
<1>6. older \in Seq({rows[i] : i \in 1..L})
  BY <1>1
<1>7. <<rows[n]>> \o older = [k \in 1..n |-> rows[n - k + 1]]
  <2>1. Len(<<rows[n]>>) = 1 /\ Len(older) = n - 1
    BY <1>1
  <2>. QED  BY <1>1, <2>1
<1>. QED  BY <1>5, <1>7 DEF LiveChain

\* The window a risk request is decided on is the one that ends with the row it
\* began with: rows stored since neither enter it nor break it (WindowIsDecided,
\* risk_dispatch.py, _continuous_custom_window).
THEOREM WindowsAreDecided == Spec => []WindowIsDecided
<1>1. Init => Anchored
  BY DEF Init, Anchored
<1>2. RiskInv /\ Anchored => WindowIsDecided
  <2>. SUFFICES ASSUME RiskInv, Anchored, NEW t \in Threads, Doing(t, "history")
                PROVE  /\ LiveWindowComplete(req[t].row, History, clock) <=> WholeWindow(req[t].row)
                       /\ WholeWindow(req[t].row) =>
                            \A i \in 1..Window :
                              LiveWindow(req[t].row, History)[i] = rows[req[t].row.id - i + 1]
    BY DEF WindowIsDecided
  <2>. DEFINE n == req[t].row.id
              chain == [k \in 1..n |-> rows[n - k + 1]]
  <2>1. req[t].row # None
    BY DEF Doing, RiskInv, Requested, Sound
  <2>2. n \in 1..Len(rows) /\ rows[n] = req[t].row /\ Len(rows) \in Nat
    BY <2>1 DEF Doing, Anchored, RiskInv, Kept
  <2>3. LiveChain(req[t].row, History) = chain
    BY <2>2, ChainIsStored
  <2>4. Len(chain) = n /\ Window \in Nat /\ Window >= 2
    BY <2>2, WindowAssumption
  <2>5. LiveWindowComplete(req[t].row, History, clock) <=>
          /\ IsFresh(rows[n], clock) /\ n >= Window
          /\ \A k \in 1..Window - 1 : /\ Contiguous(chain[k + 1], chain[k])
                                      /\ IsFresh(chain[k + 1], clock)
    BY <2>2, <2>3, <2>4 DEF LiveWindowComplete
  <2>6. WholeWindow(req[t].row) <=>
          /\ n - Window + 1 >= 1
          /\ \A i \in n - Window + 1..n : IsFresh(rows[i], clock)
          /\ \A i \in n - Window + 1..n - 1 : Contiguous(rows[i], rows[i + 1])
    BY DEF WholeWindow
  <2>7. ASSUME n >= Window, NEW k \in 1..Window - 1
        PROVE  chain[k] = rows[n - k + 1] /\ chain[k + 1] = rows[n - k]
    <3>1. k \in 1..n /\ k + 1 \in 1..n /\ n - (k + 1) + 1 = n - k
      BY <2>2, <2>4, <2>7
    <3>. QED  BY <3>1
  <2>8. LiveWindowComplete(req[t].row, History, clock) => WholeWindow(req[t].row)
    <3>. SUFFICES ASSUME LiveWindowComplete(req[t].row, History, clock) PROVE WholeWindow(req[t].row)
      OBVIOUS
    <3>1. n >= Window
      BY <2>5
    <3>2. ASSUME NEW i \in n - Window + 1..n - 1
          PROVE  Contiguous(rows[i], rows[i + 1]) /\ IsFresh(rows[i], clock)
      <4>. DEFINE m == n
      <4>1. m \in Nat
        BY <2>2
      <4>. HIDE DEF m
      <4>2. \A j \in m - Window + 1..m - 1 : m - j \in 1..Window - 1 /\ m - (m - j) = j /\ m - (m - j) + 1 = j + 1
        BY <2>4, <4>1
      <4>3. n - i \in 1..Window - 1 /\ n - (n - i) = i /\ n - (n - i) + 1 = i + 1
        BY <4>2 DEF m
      <4>. QED  BY <2>5, <2>7, <3>1, <4>3
    <3>3. n - Window + 1 >= 1 /\ \A i \in n - Window + 1..n : i = n \/ i \in n - Window + 1..n - 1
      BY <2>2, <2>4, <3>1
    <3>. QED  BY <2>5, <2>6, <3>2, <3>3
  <2>9. WholeWindow(req[t].row) => LiveWindowComplete(req[t].row, History, clock)
    <3>. SUFFICES ASSUME WholeWindow(req[t].row) PROVE LiveWindowComplete(req[t].row, History, clock)
      OBVIOUS
    <3>1. n >= Window /\ n \in n - Window + 1..n
      BY <2>2, <2>4, <2>6
    <3>2. ASSUME NEW k \in 1..Window - 1
          PROVE  Contiguous(chain[k + 1], chain[k]) /\ IsFresh(chain[k + 1], clock)
      <4>1. n - k \in n - Window + 1..n - 1 /\ n - k \in n - Window + 1..n
        BY <2>2, <2>4
      <4>. QED  BY <2>6, <2>7, <3>1, <4>1
    <3>. QED  BY <2>5, <2>6, <3>1, <3>2
  <2>10. ASSUME WholeWindow(req[t].row), NEW i \in 1..Window
         PROVE  LiveWindow(req[t].row, History)[i] = rows[n - i + 1]
    <3>1. n >= Window
      BY <2>2, <2>4, <2>6, <2>10
    <3>2. chain \in Seq({rows[j] : j \in 1..Len(rows)})
      <4>1. \A k \in 1..n : n - k + 1 \in 1..Len(rows)
        BY <2>2
      <4>. DEFINE Stored == {rows[j] : j \in 1..Len(rows)}
      <4>2. \A k \in 1..n : rows[n - k + 1] \in Stored
        BY <4>1
      <4>. HIDE DEF Stored
      <4>3. [k \in 1..n |-> rows[n - k + 1]] \in Seq(Stored)
        <5>. DEFINE m == n
        <5>1. m \in Nat /\ \A k \in 1..m : rows[m - k + 1] \in Stored
          BY <2>2, <4>2
        <5>. HIDE DEF m
        <5>2. [k \in 1..m |-> rows[m - k + 1]] \in Seq(Stored)
          BY <5>1
        <5>. QED  BY <5>2 DEF m
      <4>. QED  BY <4>3 DEF Stored
    <3>3. SubSeq(chain, 1, Window)[i] = chain[i]
      BY <2>2, <2>4, <3>1, <3>2
    <3>. QED  BY <2>2, <2>3, <2>4, <3>1, <3>3 DEF LiveWindow
  <2>. QED  BY <2>8, <2>9, <2>10
<1>. QED  BY <1>1, <1>2, AnchorStep, RiskInvariance, PTL DEF Spec
=============================================================================
