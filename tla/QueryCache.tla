----------------------------- MODULE QueryCache -----------------------------
(***************************************************************************)
(* What a dashboard page shows of the server: one query of the TanStack    *)
(* cache, the pages that mount it, and the mutations that change what it   *)
(* answers.  Queries share nothing, so one key, chosen at the start, stands *)
(* for all of them; key families are named by their first element, which   *)
(* is the prefix the code invalidates by.                                  *)
(*                                                                         *)
(* "new" data has every write to the key that the server has committed,    *)
(* "old" data misses one.                                                  *)
(***************************************************************************)
EXTENDS FiniteSets, Naturals

CONSTANTS
    Screens,    \* page -> [reads : its query keys, does : name -> Effect]
    Keys,
    Overlooked, \* <<mutation, key>>: the code tells nobody of this change
    AtSight,    \* <<mutation, key>>: must be on screen before the page moves on
    Polled,     \* keys with a refetchInterval
    Elsewhere,  \* a page that neither reads nor changes anything here
    Here,       \* not a page: a mutation that leaves the user where he is
    MaxDoing    \* mutations in the air at once

Pages == DOMAIN Screens
Reads(p) == Screens[p].reads
Mutations == UNION {{<<p, n>> : n \in DOMAIN Screens[p].does} : p \in Pages}
Effect(m) == Screens[m[1]].does[m[2]]
Changes(m) == Effect(m).changes \* what the server's answer to these keys now differs in
Told(m) == Effect(m).told       \* onSuccess: invalidateQueries
Seeds(m) == Effect(m).seeds     \* onSuccess: setQueryData
ToldOnError(m) == Effect(m).onError \* onError: invalidateQueries
Goes(m) == Effect(m).goes       \* onSuccess: router.push

ASSUME CacheAssumption ==
    /\ Elsewhere \in Pages /\ Here \notin Pages
    /\ MaxDoing \in Nat
    /\ \A m \in Mutations : Goes(m) \in Pages \cup {Here}

VARIABLES
    key,    \* the query watched
    page,   \* where the user is
    data,   \* what the cache holds of the key
    marked, \* stale: invalidated, in error, or older than staleTime
    failed, \* the last fetch failed, and the page says so
    fetch,  \* the request in the air: not read yet, or what it read
    doing,  \* mutations in the air: <<mutation, how far>>
    owed,   \* what the page owes the user's own last write (for the properties)
    outrun  \* whether an answer older than that write is coming or has landed (likewise)

cache == <<data, marked, failed, fetch>>
debt == <<owed, outrun>>
vars == <<key, page, cache, doing, debt>>

Mounted(p) == key \in Reads(p)
\* Pages that do nothing to the key are alike: one stands for those that mount it,
\* and Elsewhere for the others.
Touching ==
    [k \in Keys |-> {m \in Mutations : k \in UNION {Changes(m), Told(m), Seeds(m), ToldOnError(m)}}]
Busy(k) == {m[1] : m \in Touching[k]}
Quiet(k) == {p \in Pages \ Busy(k) : k \in Reads(p)}
Around ==
    [k \in Keys |-> Busy(k) \cup {p \in Quiet(k) : p = CHOOSE q \in Quiet(k) : TRUE} \cup {Elsewhere}]

Init ==
    /\ key \in Keys
    /\ page \in Around[key]
    /\ data = "none" /\ marked = FALSE /\ failed = FALSE
    /\ fetch = IF Mounted(page) THEN "sent" ELSE "none"
    /\ doing = {}
    /\ owed = "nothing" /\ outrun = "no"

-----------------------------------------------------------------------------
(***************************************************************************)
(* The query.                                                              *)
(***************************************************************************)
\* Mounting refetches what is missing or stale, and joins a request in the air.
Arriving(p, d, mk, f) ==
    IF f = "none" /\ Mounted(p) /\ (d = "none" \/ mk) THEN "sent" ELSE f

\* A link or the address bar.  The request of a query nobody mounts any more goes on.
Navigate(p) ==
    /\ page' = p
    /\ fetch' = Arriving(p, data, marked, fetch)
    /\ UNCHANGED <<key, data, marked, failed, doing, debt>>

ServerReads ==
    /\ fetch = "sent"
    /\ fetch' = "new"
    /\ UNCHANGED <<key, page, data, marked, failed, doing, debt>>

Answer ==
    /\ fetch \in {"old", "new"}
    /\ data' = fetch /\ fetch' = "none"
    /\ marked' = FALSE /\ failed' = FALSE
    /\ outrun' = IF fetch = "new" THEN "no" ELSE IF outrun = "coming" THEN "landed" ELSE outrun
    /\ UNCHANGED <<key, page, doing, owed>>

FetchFails ==
    /\ fetch # "none"
    /\ fetch' = "none" /\ marked' = TRUE /\ failed' = TRUE
    /\ UNCHANGED <<key, page, data, doing, debt>>

\* staleTime passes; nothing is fetched until the key is mounted again.
Age ==
    /\ data # "none" /\ ~marked
    /\ marked' = TRUE
    /\ UNCHANGED <<key, page, data, failed, fetch, doing, debt>>

Poll ==
    /\ key \in Polled /\ Mounted(page) /\ fetch = "none"
    /\ fetch' = "sent"
    /\ UNCHANGED <<key, page, data, marked, failed, doing, debt>>

\* gcTime passes for a query nobody mounts.
Collect ==
    /\ ~Mounted(page) /\ fetch = "none" /\ data # "none"
    /\ data' = "none" /\ marked' = FALSE /\ failed' = FALSE
    /\ UNCHANGED <<key, page, fetch, doing, debt>>

-----------------------------------------------------------------------------
(***************************************************************************)
(* The mutations.                                                          *)
(***************************************************************************)
Mutate(m) ==
    /\ m[1] = page
    /\ Cardinality(doing) < MaxDoing
    /\ \A d \in doing : d[1] # m \* its button is disabled while it is pending
    /\ doing' = doing \cup {<<m, "sent">>}
    /\ UNCHANGED <<key, page, cache, debt>>

\* A write reaches the database: what was read before it is old, and so is
\* what a mutation that came before it will answer.
Outdates(v) == IF v = "new" THEN "old" ELSE v
Written(ds) == {<<d[1], IF d[2] = "done" THEN "dated" ELSE d[2]>> : d \in ds}

Writes ==
    /\ data' = Outdates(data) /\ fetch' = Outdates(fetch)
    /\ owed' = "nothing" /\ outrun' = "no"
    /\ UNCHANGED <<key, page, marked, failed>>

Commit(m) ==
    /\ <<m, "sent">> \in doing
    /\ IF key \in Changes(m)
       THEN Writes /\ doing' = Written(doing \ {<<m, "sent">>}) \cup {<<m, "done">>}
       ELSE /\ doing' = (doing \ {<<m, "sent">>}) \cup {<<m, "done">>}
            /\ UNCHANGED <<key, page, cache, debt>>

\* Somebody else, on a device of his own.
OthersWrite ==
    /\ \E m \in Touching[key] : key \in Changes(m)
    /\ Writes /\ doing' = Written(doing)

\* A seed replaces the data and leaves a request in the air alone.
Seeded_Raw(m, at) == IF key \in Seeds(m) THEN at ELSE data
Seeded(m, at) ==
    IF key \in Seeds(m) THEN IF at = "done" THEN "new" ELSE "old" ELSE data

\* invalidateQueries cancels and restarts the request of a mounted query, unless
\* it is the first load: that one has nothing to fall back on and is joined.
Restarts(told, d) == key \in told /\ Mounted(page) /\ (d # "none" \/ fetch = "none")
Refetched(told, d) == IF Restarts(told, d) THEN "sent" ELSE fetch

\* A refusal, or the answer lost after the commit: onError shows a toast.
Fails(m, at) ==
    /\ <<m, at>> \in doing
    /\ doing' = doing \ {<<m, at>>}
    /\ marked' = (marked \/ key \in ToldOnError(m))
    /\ fetch' = Refetched(ToldOnError(m), data)
    /\ UNCHANGED <<key, page, data, failed, debt>>

OwesAnew(m, at) == at = "done" /\ key \in Changes(m)

Owes(m, at) ==
    IF ~OwesAnew(m, at) THEN owed
    ELSE IF <<m, key>> \in Overlooked THEN "nothing"
    ELSE IF <<m, key>> \in AtSight THEN "sight" ELSE "refetch"

\* Nothing stops a request that read before the write if the key is only seeded, is not
\* mounted, or is loaded for the first time; nor the answer of an older mutation.
Unstopped(m, d) == fetch = "old" /\ (key \notin Told(m) \/ ~Mounted(page) \/ d = "none")

Outruns(m, at, d) ==
    IF Owes(m, at) = "nothing" THEN "no"
    ELSE IF key \in Seeds(m) /\ at # "done" THEN "landed"
    ELSE IF ~OwesAnew(m, at) THEN outrun
    ELSE IF Unstopped(m, d) THEN "coming" ELSE "no"

Success(m, at) ==
    /\ <<m, at>> \in doing /\ at # "sent"
    /\ doing' = doing \ {<<m, at>>}
    /\ page' = IF Goes(m) = Here THEN page ELSE Goes(m)
    /\ data' = Seeded(m, at)
    /\ marked' = (key \in Told(m) \/ (marked /\ key \notin Seeds(m)))
    /\ failed' = (failed /\ key \notin Seeds(m))
    /\ LET f == Refetched(Told(m), data') IN
       fetch' = IF Goes(m) = Here THEN f ELSE Arriving(Goes(m), data', marked', f)
    /\ owed' = Owes(m, at) /\ outrun' = Outruns(m, at, data')
    /\ UNCHANGED key

-----------------------------------------------------------------------------
QueryStep == ServerReads \/ Answer \/ FetchFails \/ Age \/ Poll \/ Collect
MutationStep(m) ==
    \/ Mutate(m) \/ Commit(m)
    \/ \E at \in {"sent", "done", "dated"} : Fails(m, at)
    \/ \E at \in {"done", "dated"} : Success(m, at)

Next ==
    \/ \E p \in Around[key] : Navigate(p)
    \/ QueryStep
    \/ OthersWrite
    \/ \E m \in Touching[key] : MutationStep(m)

Spec == Init /\ [][Next]_vars

-----------------------------------------------------------------------------
(* The variables hold what the code can store in them. *)
CacheTypeOK ==
    /\ key \in Keys /\ page \in Pages
    /\ data \in {"none", "old", "new"}
    /\ marked \in BOOLEAN /\ failed \in BOOLEAN
    /\ fetch \in {"none", "sent", "old", "new"}
    /\ doing \subseteq Mutations \X {"sent", "done", "dated"}
    /\ owed \in {"nothing", "refetch", "sight"}
    /\ outrun \in {"no", "coming", "landed"}

(* After a page reports "saved", the user never reads the past as if it were *)
(* the present: data without his write is stale and, where it is on screen,  *)
(* being fetched again or shown as failed.  Excepted is a query on which an  *)
(* answer has landed that is older than the write and that nothing stops: of *)
(* a request for a key that was seeded only, mounted nowhere or loaded for   *)
(* the first time, or of an older mutation that seeds.  There the cache does *)
(* take the past for the present, until it is fetched again.                 *)
ReadYourWrites ==
    owed # "nothing" /\ data = "old" /\ outrun # "landed"
      => marked /\ (Mounted(page) => fetch # "none" \/ failed)

(* A mutation that must be on screen before the page it navigates to decides *)
(* anything (a new organizer is not sent back to make his organization       *)
(* again) is on screen, not merely on its way; with the same exception.      *)
SeenOnArrival == owed = "sight" /\ outrun # "landed" => data # "old"

(* Every change is told, seeded or listed as overlooked: what the theorem on *)
(* ReadYourWrites asks of the table of screens.                              *)
TableCovers ==
    \A m \in Mutations : \A k \in Changes(m) :
      <<m, k>> \in Overlooked \/ k \in Told(m) \cup Seeds(m)
=============================================================================
