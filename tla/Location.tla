----------------------------- MODULE Location -------------------------------
(***************************************************************************)
(* The location service, internal/location/location.go: the Redis geo set  *)
(* "drivers:locations", the table locations with the function              *)
(* find_nearby_drivers, and the user service beside it, which keeps the    *)
(* drivers' availability.                                                  *)
(*                                                                         *)
(* A position is named by the call of UpdateLocation that reports it, and  *)
(* all searches look around one point; Near are the places within their    *)
(* radius.  Further stages of a call:                                      *)
(*                                                                         *)
(*   caching    UpdateLocation started; next: GEOADD                       *)
(*   storing    next: the INSERT                                           *)
(*                                                                         *)
(* Nothing calls Cache.RemoveDriver, so a driver never leaves the geo set. *)
(***************************************************************************)
EXTENDS Users, Sequences, FiniteSets

CONSTANTS
    Searches,  \* calls of GetNearbyDrivers
    Places, Near,
    NoPlace,
    Limit,     \* the most drivers a search of the geo set returns, 20
    Sound      \* drivers whose positions always reach the geo set

ASSUME LocationAssumption ==
    /\ Near \subseteq Places
    /\ NoPlace \notin Places
    /\ Limit \in Nat \ {0}
    /\ Sound \subseteq Drivers

VARIABLES
    place,   \* the place a call reports
    geo,     \* the geo set: the report each driver's entry is from
    rows,    \* the table locations, oldest row first
    search,  \* where a search stands
    found    \* what it answers

locationVars == <<place, geo, rows, search, found>>

vars == <<userVars, locationVars>>

SearchStage == {"idle", "fallback", "cache", "table", "failed"}

Finding == [driver : Drivers, report : Calls]

Init ==
    /\ UsersInit
    /\ place = [q \in Calls |-> NoPlace]
    /\ geo = [d \in Drivers |-> NoCall]
    /\ rows = <<>>
    /\ search = [s \in Searches |-> "idle"]
    /\ found = [s \in Searches |-> {}]

-----------------------------------------------------------------------------
(* UpdateLocation *)

UpdateLocation(q, d, p) ==
    /\ Arrive(q, d)
    /\ place' = [place EXCEPT ![q] = p]
    /\ Goto(q, "caching")
    /\ UNCHANGED <<profile, available, asked, seen, online, geo, rows, search, found>>

\* Fault: GEOADD NX, which keeps the entry a driver has.
CacheFirstPosition(q) ==
    /\ pc[q] = "caching"
    /\ geo' = IF geo[who[q]] = NoCall THEN [geo EXCEPT ![who[q]] = q] ELSE geo
    /\ Goto(q, "storing")
    /\ UNCHANGED <<profile, available, who, asked, seen, online, place, rows, search, found>>

\* Redis may fail: the error is logged and the call goes on.
CachePosition(q) ==
    /\ pc[q] = "caching"
    /\ \/ geo' = [geo EXCEPT ![who[q]] = q]
       \/ who[q] \notin Sound /\ UNCHANGED geo
    /\ Goto(q, "storing")
    /\ UNCHANGED <<profile, available, who, asked, seen, online, place, rows, search, found>>

\* Fault: an INSERT without an answer is tried again.
InsertAgain(q) ==
    /\ pc[q] = "storing"
    /\ rows' = Append(rows, q)
    /\ \E stage \in {"ok", "storing"} : Len(rows) < 5 /\ Goto(q, stage)
    /\ UNCHANGED <<profile, available, who, asked, seen, online, place, geo, search, found>>

\* The INSERT; its failure is the call's.
Insert(q) ==
    /\ pc[q] = "storing"
    /\ rows' = Append(rows, q)
    /\ Finish(q)
    /\ UNCHANGED <<profile, available, who, asked, seen, online, place, geo, search, found>>

-----------------------------------------------------------------------------
(* GetNearbyDrivers *)

ReportIsNear(q) == place[q] \in Near

\* Fault: every entry of the geo set.
CachedAnywhere ==
    {f \in Finding : f.report = geo[f.driver]}

\* The entries of the geo set within the radius.
Cached ==
    {f \in Finding : f.report = geo[f.driver] /\ ReportIsNear(f.report)}

\* GEOSEARCH returns the nearest Limit of them, whoever these are.
Nearest(entries) ==
    {chosen \in SUBSET entries :
        \/ chosen = entries /\ Cardinality(chosen) <= Limit
        \/ Cardinality(chosen) = Limit}

\* The geo set is asked first; whether its drivers are available is not.
SearchCache(s) ==
    /\ search[s] = "idle"
    /\ Cached # {}
    /\ \E chosen \in Nearest(Cached) : found' = [found EXCEPT ![s] = chosen]
    /\ search' = [search EXCEPT ![s] = "cache"]
    /\ UNCHANGED <<userVars, place, geo, rows>>

\* It knows nobody there, or Redis fails.
SearchFallsBack(s) ==
    /\ search[s] = "idle"
    /\ search' = [search EXCEPT ![s] = "fallback"]
    /\ UNCHANGED <<userVars, place, geo, rows, found>>

\* A driver's rows within the radius.
NearRows(d) ==
    {i \in DOMAIN rows : who[rows[i]] = d /\ ReportIsNear(rows[i])}

\* Fault: of each available driver the first row.
FindNearbyFirst ==
    {f \in Finding :
        /\ available[f.driver]
        /\ \E i \in NearRows(f.driver) :
             rows[i] = f.report /\ \A j \in NearRows(f.driver) : i <= j}

\* find_nearby_drivers: of each available driver the latest row within the
\* radius, which is an old one if he has left it since.
FindNearby ==
    {f \in Finding :
        /\ available[f.driver]
        /\ \E i \in NearRows(f.driver) :
             rows[i] = f.report /\ \A j \in NearRows(f.driver) : j <= i}

\* The rows are read one by one, and nobody looks whether the last of them was
\* reached: when the statement is cut off by an error, the deadline or a lost
\* connection, what was read of it is the answer, and the call succeeds.  It
\* fails if the statement cannot be sent or a row cannot be understood.
SearchTable(s) ==
    /\ search[s] = "fallback"
    /\ \/ /\ \E read \in SUBSET FindNearby : found' = [found EXCEPT ![s] = read]
          /\ search' = [search EXCEPT ![s] = "table"]
       \/ /\ search' = [search EXCEPT ![s] = "failed"]
          /\ UNCHANGED found
    /\ UNCHANGED <<userVars, place, geo, rows>>

-----------------------------------------------------------------------------

LocationNext ==
    \/ \E q \in Calls :
         \/ \E d \in Drivers, p \in Places : UpdateLocation(q, d, p)
         \/ CachePosition(q)
         \/ Insert(q)
    \/ \E s \in Searches : SearchCache(s) \/ SearchFallsBack(s) \/ SearchTable(s)

Next ==
    \/ UsersNext /\ UNCHANGED locationVars
    \/ LocationNext

Spec == Init /\ [][Next]_vars

-----------------------------------------------------------------------------
(* Properties *)

TypeOK ==
    /\ UsersTypeOK
    /\ place \in [Calls -> Places \cup {NoPlace}]
    /\ geo \in [Drivers -> Calls \cup {NoCall}]
    /\ rows \in Seq(Calls)
    /\ search \in [Searches -> SearchStage]
    /\ found \in [Searches -> SUBSET Finding]

Rows(d) == {i \in DOMAIN rows : who[rows[i]] = d}

\* The geo set, which is written first, is never behind the table: for a driver
\* whose reports do not overlap and reach Redis it does not hold a position
\* that the table has replaced by a later one.
CacheNotBehindTable ==
    \A d \in Calm \cap Sound : \A i, j \in Rows(d) : i < j => geo[d] # rows[i]

\* A report is stored once, and whoever is told that it is can rely on it,
\* whatever Redis does.
ReportsStored ==
    /\ \A i, j \in DOMAIN rows : rows[i] = rows[j] => i = j
    /\ \A q \in Calls : pc[q] = "ok" /\ place[q] # NoPlace => \E i \in DOMAIN rows : rows[i] = q

\* What a search answers are positions within the radius that the drivers
\* themselves reported, one of each, and from the table only stored ones.
FindingsTruthful ==
    \A s \in Searches :
        /\ \A f \in found[s] : who[f.report] = f.driver /\ ReportIsNear(f.report)
        /\ \A f, g \in found[s] : f.driver = g.driver => f = g
        /\ search[s] = "cache" => found[s] # {} /\ Cardinality(found[s]) <= Limit
        /\ search[s] = "table" =>
               \A f \in found[s] : \E i \in DOMAIN rows : rows[i] = f.report

\* Nobody is found where he no longer is: once a later position of a driver has
\* been stored, itself within the radius, no search answers an earlier one of
\* his, whichever of the two stores it is answered from.  The table sees to it
\* for every driver and finds nobody unavailable; of the geo set it can be said
\* of drivers whose reports do not overlap and reach Redis.  Nothing is claimed
\* of drivers who left the radius, nor that anybody is found.
SearchesCurrent ==
    [][\A s \in Searches : \A f \in found'[s] :
         search'[s] # search[s] =>
             /\ search'[s] = "table" => available[f.driver]
             /\ search'[s] = "table" \/ f.driver \in Calm \cap Sound =>
                    \A i, j \in Rows(f.driver) :
                        rows[i] = f.report /\ i < j => ~ReportIsNear(rows[j])]_vars

=============================================================================
