-------------------------- MODULE EnvironmentCache --------------------------
(* The process-local caches of server/app/environment.py.  The weather of a   *)
(* place is fetched under one lock, held across the provider call; places are *)
(* searched and resolved without one, and what a search returned is cached    *)
(* again per place.  A value is known by the time its fetch began, which is   *)
(* the oldest it can be.  A thread serves one request at a time.              *)
EXTENDS Integers, FiniteSets

CONSTANTS
  Threads,    \* threads of the server process
  Places,     \* places, each the only answer to its search
  Ttl,        \* CACHE_TTL_SECONDS
  GeoTtl,     \* GEOCODING_CACHE_TTL_SECONDS
  MaxClock,   \* bound: time that passes
  None

ASSUME CacheAssumption == {Ttl, GeoTtl, MaxClock} \subseteq Nat /\ Ttl > 0 /\ None \notin Nat

VARIABLES
  clock,      \* time.monotonic()
  cache,      \* _cache: weather by place
  lock,       \* _cache_lock: the thread that holds it
  searches,   \* _geocoding_cache, by the place a search is for
  presets,    \* _geo_preset_cache, by place
  call        \* what each thread is doing here

cacheVars == <<clock, cache, lock, searches, presets, call>>

Weather(kind, p, fetched) == [kind |-> kind, place |-> p, fetched |-> fetched]

CacheInit ==
  /\ clock = 0 /\ lock = None
  /\ cache = [p \in Places |-> None]
  /\ searches = [p \in Places |-> None]
  /\ presets = [p \in Places |-> None]
  /\ call = [t \in Threads |-> None]

Fresh(entry, now, ttl) == entry # None /\ now - entry.stamp < ttl

At(t, step) == call[t] # None /\ call[t].step = step
Return(t, answer) == call' = [call EXCEPT ![t] = [step |-> "returned", answer |-> answer]]

-----------------------------------------------------------------------------
(* get_environment(): the time is read before the lock is taken.             *)

AskWeather(t, p) ==
  call' = [call EXCEPT ![t] = [step |-> "lock", place |-> p, now |-> clock]]

(* Mutant of CachedWeather: the entries are not told apart by place.          *)
CachedWeatherOfAnyPlace(t) ==
  /\ At(t, "lock") /\ lock = None
  /\ \E p \in Places : /\ Fresh(cache[p], call[t].now, Ttl)
                       /\ Return(t, Weather("live", p, cache[p].fetched))
  /\ UNCHANGED <<clock, cache, lock, searches, presets>>

CachedWeather(t) ==
  LET p == call[t].place IN
  /\ At(t, "lock") /\ lock = None
  /\ Fresh(cache[p], call[t].now, Ttl)
  /\ Return(t, Weather("live", p, cache[p].fetched))
  /\ UNCHANGED <<clock, cache, lock, searches, presets>>

TakeLock(t) ==
  /\ At(t, "lock") /\ lock = None
  /\ ~Fresh(cache[call[t].place], call[t].now, Ttl)
  /\ lock' = t
  /\ call' = [call EXCEPT ![t] = [step |-> "fetch", place |-> @.place, now |-> @.now,
                                  fetched |-> clock]]
  /\ UNCHANGED <<clock, cache, searches, presets>>

(* Mutant of StampOf: the entry is stamped when the provider has answered.    *)
StampOfAnswer(t) == clock

StampOf(t) == call[t].now

FetchWeather(t) ==
  LET p == call[t].place IN
  /\ At(t, "fetch")
  /\ cache' = [cache EXCEPT ![p] = [fetched |-> call[t].fetched, stamp |-> StampOf(t)]]
  /\ Return(t, Weather("live", p, call[t].fetched))
  /\ lock' = None
  /\ UNCHANGED <<clock, searches, presets>>

(* Mutant of NoWeather: a failed fetch leaves the lock held.                  *)
NoWeatherHolding(t) ==
  LET p == call[t].place IN
  /\ At(t, "fetch")
  /\ Return(t, IF cache[p] # None THEN Weather("stale", p, cache[p].fetched)
               ELSE Weather("stale", p, None))
  /\ UNCHANGED <<clock, cache, lock, searches, presets>>

(* The provider fails or times out: the old copy marked stale, or nothing.    *)
NoWeather(t) ==
  LET p == call[t].place IN
  /\ At(t, "fetch")
  /\ Return(t, IF cache[p] # None THEN Weather("stale", p, cache[p].fetched)
               ELSE Weather("stale", p, None))
  /\ lock' = None
  /\ UNCHANGED <<clock, cache, searches, presets>>

-----------------------------------------------------------------------------
(* search_device_locations() and get_geo_device_location_preset().           *)

(* A result of a search becomes a preset, stamped when it is remembered.      *)
Remember(p, fetched) ==
  presets' = [presets EXCEPT ![p] = [fetched |-> fetched, stamp |-> clock]]

SearchPlaces(t, p) ==
  /\ call[t] = None
  /\ IF Fresh(searches[p], clock, GeoTtl)
     THEN Remember(p, searches[p].fetched) /\ UNCHANGED call
     ELSE /\ call' = [call EXCEPT ![t] = [step |-> "search", place |-> p, now |-> clock,
                                          old |-> searches[p]]]
          /\ UNCHANGED presets
  /\ UNCHANGED <<clock, cache, lock, searches>>

(* Every variant of the query failed: the copy read before the search, if any.*)
Searched(t) ==
  /\ At(t, "search")
  /\ \/ /\ searches' = [searches EXCEPT ![call[t].place] =
                          [fetched |-> call[t].now, stamp |-> call[t].now]]
        /\ Remember(call[t].place, call[t].now)
     \/ /\ UNCHANGED searches
        /\ IF call[t].old = None THEN UNCHANGED presets
           ELSE Remember(call[t].place, call[t].old.fetched)
  /\ call' = [call EXCEPT ![t] = None]
  /\ UNCHANGED <<clock, cache, lock>>

AskPreset(t, p) ==
  call' = [call EXCEPT ![t] =
             IF Fresh(presets[p], clock, GeoTtl)
             THEN [step |-> "resolved", place |-> p]
             ELSE [step |-> "resolve", place |-> p, now |-> clock, old |-> presets[p]]]

(* The provider knows the place, does not know it, or does not answer.        *)
Resolved(t) ==
  LET p == call[t].place
      found == [call EXCEPT ![t] = [step |-> "resolved", place |-> p]]
      refused == [call EXCEPT ![t] = None] IN
  /\ At(t, "resolve")
  /\ \/ /\ presets' = [presets EXCEPT ![p] = [fetched |-> call[t].now, stamp |-> call[t].now]]
        /\ call' = found
     \/ call' = refused /\ UNCHANGED presets
     \/ call' = (IF call[t].old = None THEN refused ELSE found) /\ UNCHANGED presets
  /\ UNCHANGED <<clock, cache, lock, searches>>

Tick ==
  /\ clock < MaxClock /\ clock' = clock + 1
  /\ UNCHANGED <<cache, lock, searches, presets, call>>

CacheStep(t) ==
  CachedWeather(t) \/ TakeLock(t) \/ FetchWeather(t) \/ NoWeather(t)
    \/ Searched(t) \/ Resolved(t)
=============================================================================
