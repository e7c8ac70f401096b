--------------------------- MODULE MCRiskService ---------------------------
(* Small instances of RiskService, told apart by `focus`: two threads around  *)
(* the weather and place caches, with one uploaded row and no session; or one *)
(* request at a time around the sensor window and what sessions froze, with   *)
(* no place.  The two share no more than the reads of one request.            *)
EXTENDS RiskService

CONSTANT Server     \* the thread that serves when there is only one

VARIABLE focus

Irregular ==
  {i \in DOMAIN rows :
     \/ ~rows[i].ok
     \/ rows[i].seq # (IF i = 1 THEN 1 ELSE rows[i-1].seq + 1)
     \/ i > 1 /\ rows[i].up # rows[i-1].up + rows[i].at - rows[i-1].at}

First(S) == CHOOSE x \in S : TRUE

NoCalls == \A t \in Threads : call[t] = None
OneServer == \A t \in Threads : req[t] # None => t = Server /\ req[t].row # None
NoSession == collecting = None /\ active = None /\ scenario = None

\* The risk and the environment of a place, saved or configured, that changes once.
WeatherOnly ==
  /\ legacy /\ NoSession /\ profile = None /\ model = "default"
  /\ clock + 2 * changes <= Ttl + 1
  /\ (changes = 0 => {place, configured} \in {{None, p} : p \in Searchable})
  /\ (clock > 0 => rows # <<>>) /\ Len(rows) <= 1 /\ Irregular = {}
  /\ \A p \in Places : presets[p] = None /\ searches[p] = None
  /\ \A t \in Threads :
       /\ call[t] # None => call[t].step \notin {"search", "resolve"}
       /\ req[t] # None => (req[t].row # None <=> t = Server)
\* Two threads search and resolve places.
PlacesOnly ==
  /\ legacy /\ NoSession /\ rows = <<>> /\ model = "default" /\ configured = None
  /\ \A t \in Threads : req[t] = None
\* One request of the custom model and rows of every kind.
WindowOnly ==
  /\ legacy /\ model = "custom" /\ place = None /\ configured = None /\ active = None
  /\ scenario = First(Scenarios) /\ changes = 0 /\ NoCalls /\ OneServer
  /\ Cardinality(Irregular) <= 1 /\ (Irregular = {} \/ frozen = [s \in Sessions |-> None])
  /\ clock <= MaxAge + 1
\* One request while what its session froze, or the device uses now, changes.
SessionOnly ==
  /\ place = None /\ configured = None /\ NoCalls /\ OneServer /\ clock <= 1
  /\ Len(rows) <= Window /\ Irregular = {}
  /\ (changes = 0 => scenario \in {None, First(Scenarios)} /\ active \in {None, First(Artifacts)})
  /\ \A i \in DOMAIN rows : rows[i].at = i - 1
Focuses == {"weather", "places", "window", "session"}
Focused ==
  CASE focus = "weather" -> WeatherOnly
    [] focus = "places"  -> PlacesOnly
    [] focus = "window"  -> WindowOnly
    [] focus = "session" -> SessionOnly

MCInit == Init /\ focus \in Focuses /\ Focused
MCNext == Next /\ UNCHANGED focus /\ Focused'
MCvars == <<vars, focus>>

\* A thread goes on with its request; a provider call ends, and a thread that
\* waits for the lock gets it some day.
FairSpec ==
  /\ MCInit /\ [][MCNext]_MCvars
  /\ \A t \in Threads :
       /\ WF_vars(Serve(t) /\ UNCHANGED focus)
       /\ SF_vars(Inside(t) /\ UNCHANGED focus)
=============================================================================
