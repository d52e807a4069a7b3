------------------------------ MODULE OfflinePage ------------------------------
(***************************************************************************)
(* The service worker's offline page (priv/static/sw.js): what each        *)
(* version of the worker keeps of it, through installations that race the  *)
(* worker they replace, navigations over a line that comes and goes, and a *)
(* site that changes its brand.                                            *)
(***************************************************************************)
EXTENDS Naturals

CONSTANTS
    MaxVersions,   \* versions of sw.js that are deployed
    MaxBrands,     \* brandings the site has, one after the other
    MaxRefusals    \* how often /offline.html is refused or the line goes
ASSUME OfflineAssumption ==
    MaxVersions \in Nat \ {0} /\ MaxBrands \in Nat \ {0} /\ MaxRefusals \in Nat

VARIABLES
    deployed,    \* the version of sw.js the server hands out
    brand,       \* what /offline.html shows now
    online,
    worker,      \* the version that is active, 0 before the first
    installing,  \* the version being installed: 0, fetching or done
    caches,      \* each version's copy of the page
    refreshing,  \* for each version, the refreshes under way
    shown,       \* what the last navigation got
    refusals

offlineVars == <<deployed, brand, online, worker, installing, caches, refreshing, shown, refusals>>

Versions == 1..MaxVersions
Brands == 1..MaxBrands
NoCopy == [brand |-> 0, stale |-> FALSE]
Copy(b) == [brand |-> b, stale |-> FALSE]
NoWorker == 0

OfflineInit ==
    /\ deployed = 1 /\ brand = 1 /\ online = TRUE
    /\ worker = NoWorker /\ installing = [version |-> 0, fetched |-> FALSE]
    /\ caches = [v \in Versions |-> NoCopy]
    /\ refreshing = [v \in Versions |-> FALSE]
    /\ shown = "nothing" /\ refusals = 0

(***************************************************************************)
(* The site and the device.                                                *)
(***************************************************************************)

DeployWorker ==
    /\ deployed < MaxVersions /\ deployed' = deployed + 1
    /\ UNCHANGED <<brand, online, worker, installing, caches, refreshing, shown, refusals>>

Rebrand ==
    /\ brand < MaxBrands /\ brand' = brand + 1
    /\ UNCHANGED <<deployed, online, worker, installing, caches, refreshing, shown, refusals>>

LineGoes ==
    /\ online /\ refusals < MaxRefusals
    /\ online' = FALSE /\ refusals' = refusals + 1
    /\ UNCHANGED <<deployed, brand, worker, installing, caches, refreshing, shown>>

LineReturns ==
    /\ ~online /\ online' = TRUE
    /\ UNCHANGED <<deployed, brand, worker, installing, caches, refreshing, shown, refusals>>

\* OFFLINE_MAX_AGE_MS after the copy's date; or the browser evicts it.
Ages(v) ==
    /\ caches[v].brand # 0 /\ ~caches[v].stale
    /\ caches' = [caches EXCEPT ![v].stale = TRUE]
    /\ UNCHANGED <<deployed, brand, online, worker, installing, refreshing, shown, refusals>>

Evicted(v) ==
    /\ caches[v].brand # 0 /\ refusals < MaxRefusals
    /\ refusals' = refusals + 1
    /\ caches' = [caches EXCEPT ![v] = NoCopy]
    /\ UNCHANGED <<deployed, brand, online, worker, installing, refreshing, shown>>

(***************************************************************************)
(* The worker.                                                             *)
(***************************************************************************)

\* cacheOffline: fetched past the HTTP cache; a failure is swallowed.
CacheOffline(v) ==
    \/ online /\ caches' = [caches EXCEPT ![v] = Copy(brand)] /\ UNCHANGED refusals
    \/ ~online /\ UNCHANGED <<caches, refusals>>
    \/ online /\ refusals < MaxRefusals /\ refusals' = refusals + 1 /\ UNCHANGED caches

Register ==
    /\ online /\ worker # deployed /\ installing.version # deployed
    /\ installing' = [version |-> deployed, fetched |-> FALSE]
    /\ UNCHANGED <<deployed, brand, online, worker, caches, refreshing, shown, refusals>>

\* install, then skipWaiting whatever became of the page.
Install ==
    /\ installing.version # 0 /\ ~installing.fetched
    /\ CacheOffline(installing.version)
    /\ installing' = [installing EXCEPT !.fetched = TRUE]
    /\ UNCHANGED <<deployed, brand, online, worker, refreshing, shown>>

\* activate: our other versions' caches go.  The worker replaced may still have a
\* refresh under way.
Activate ==
    /\ installing.fetched
    /\ worker' = installing.version
    /\ caches' = [v \in Versions |-> IF v = worker' THEN caches[v] ELSE NoCopy]
    /\ installing' = [version |-> 0, fetched |-> FALSE]
    /\ UNCHANGED <<deployed, brand, online, refreshing, shown, refusals>>

\* Mutant: a copy is fetched only when there is none.
Navigate_MissingOnly ==
    /\ worker # NoWorker
    /\ shown' = IF online THEN "page" ELSE IF caches[worker].brand # 0 THEN "offline page" ELSE "words"
    /\ refreshing' = [refreshing EXCEPT ![worker] = @ \/ (online /\ caches[worker] = NoCopy)]
    /\ UNCHANGED <<deployed, brand, online, worker, installing, caches, refusals>>

\* fetch, of a page: the network's answer, and a refresh beside it when the copy
\* is missing or old; else the copy, or a few words.
Navigate ==
    /\ worker # NoWorker
    /\ shown' = IF online THEN "page" ELSE IF caches[worker].brand # 0 THEN "offline page" ELSE "words"
    /\ refreshing' = [refreshing EXCEPT
          ![worker] = @ \/ (online /\ (caches[worker] = NoCopy \/ caches[worker].stale))]
    /\ UNCHANGED <<deployed, brand, online, worker, installing, caches, refusals>>

RefreshOffline(v) ==
    /\ refreshing[v]
    /\ CacheOffline(v)
    /\ refreshing' = [refreshing EXCEPT ![v] = FALSE]
    /\ UNCHANGED <<deployed, brand, online, worker, installing, shown>>

OfflineNext ==
    \/ DeployWorker \/ Rebrand \/ LineGoes \/ LineReturns
    \/ Register \/ Install \/ Activate \/ Navigate
    \/ \E v \in Versions : Ages(v) \/ Evicted(v) \/ RefreshOffline(v)

OfflineSpec == OfflineInit /\ [][OfflineNext]_offlineVars

\* The app is opened again and again, days pass, promises run.
OfflineFairness ==
    /\ WF_offlineVars(LineReturns) /\ WF_offlineVars(Register) /\ WF_offlineVars(Install)
    /\ WF_offlineVars(Activate) /\ WF_offlineVars(Navigate)
    /\ \A v \in Versions : WF_offlineVars(Ages(v)) /\ WF_offlineVars(RefreshOffline(v))

(***************************************************************************)
(* Properties.                                                             *)
(***************************************************************************)

OfflineTypeOK ==
    /\ deployed \in Versions /\ brand \in Brands /\ online \in BOOLEAN
    /\ worker \in Versions \union {NoWorker}
    /\ installing \in [version : Versions \union {0}, fetched : BOOLEAN]
    /\ caches \in [Versions -> [brand : Brands \union {0}, stale : BOOLEAN]]
    /\ refreshing \in [Versions -> BOOLEAN]
    /\ shown \in {"nothing", "page", "offline page", "words"}
    /\ refusals \in 0..MaxRefusals

\* A device that goes on being used ends with the newest worker and, for its
\* offline page, the brand the site has: whatever failed at its installation and
\* whatever the worker it replaced was still fetching.  Without the refresh it
\* would show "the old name and colour forever".
FallbackCatchesUp ==
    <>[](worker = deployed /\ caches[worker].brand = brand)
=============================================================================
