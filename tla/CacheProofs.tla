----------------------------- MODULE CacheProofs -----------------------------
(***************************************************************************)
(* A page that tells the cache of every change shows the user his own      *)
(* writes, whatever the screens are: for every table of screens, any       *)
(* number of overlapping mutations, navigations, failures and writes of    *)
(* others.                                                                 *)
(*                                                                         *)
(* ReadYourWrites is not inductive alone: a request that read before the   *)
(* write would answer and clear the mark.  CInv adds that while the page   *)
(* owes something such a request is in the air only where nothing stopped  *)
(* it, and outrun says so.                                                 *)
(***************************************************************************)
EXTENDS QueryCache, TLAPS

CInv ==
    /\ CacheTypeOK
    /\ owed # "nothing" /\ fetch = "old" => outrun # "no"
    /\ ReadYourWrites
    /\ SeenOnArrival

\* A sight the table promises is one it seeds.
SightsAreSeeded == \A m \in Mutations : \A k \in Keys : <<m, k>> \in AtSight => k \in Seeds(m)

Sound == TableCovers /\ SightsAreSeeded

\* A mutation that touches a key is a mutation, on a page of the table.
LEMMA MutationsOfPages ==
    ASSUME NEW k \in Keys
    PROVE  /\ Touching[k] \subseteq Mutations
           /\ \A m \in Mutations : m[1] \in Pages
           /\ Around[k] \subseteq Pages
<1>1. \A m \in Mutations : m[1] \in Pages
  BY DEF Mutations
<1>2. Touching[k] \subseteq Mutations
  BY DEF Touching
<1>3. Around[k] \subseteq Pages
  BY <1>1, <1>2, CacheAssumption DEF Around, Busy, Quiet
<1>4. QED
  BY <1>1, <1>2, <1>3

LEMMA InitCInv == Init => CInv
<1>1. SUFFICES ASSUME Init PROVE CInv
  OBVIOUS
<1>2. page \in Pages
  BY <1>1, MutationsOfPages DEF Init
<1>3. QED
  BY <1>1, <1>2 DEF Init, CInv, CacheTypeOK, ReadYourWrites, SeenOnArrival

\* The steps of the query itself: a request that answers read the write.
LEMMA QueryKeepsCInv ==
    ASSUME CInv, QueryStep \/ \E p \in Around[key] : Navigate(p)
    PROVE  CInv'
<1> USE DEF debt, CInv, CacheTypeOK, ReadYourWrites, SeenOnArrival, Mounted, Reads
<1>1. CASE ServerReads
  BY <1>1 DEF ServerReads
<1>2. CASE Answer
  BY <1>2 DEF Answer
<1>3. CASE FetchFails
  BY <1>3 DEF FetchFails
<1>4. CASE Age
  BY <1>4 DEF Age
<1>5. CASE Poll
  BY <1>5 DEF Poll
<1>6. CASE Collect
  BY <1>6 DEF Collect
<1>7. ASSUME NEW p \in Around[key], Navigate(p) PROVE CInv'
  <2>1. p \in Pages
    BY MutationsOfPages
  <2>2. QED
    BY <1>7, <2>1 DEF Navigate, Arriving
<1>8. QED
  BY <1>1, <1>2, <1>3, <1>4, <1>5, <1>6, <1>7 DEF QueryStep

\* A write outdates what is on screen, and takes the debt with it.
LEMMA WritesKeepCInv ==
    ASSUME CInv, Writes, doing' \subseteq Mutations \X {"sent", "done", "dated"}
    PROVE  CInv'
BY DEF CInv, CacheTypeOK, ReadYourWrites, SeenOnArrival, Writes, Outdates

LEMMA WrittenType ==
    ASSUME NEW D, D \subseteq Mutations \X {"sent", "done", "dated"}
    PROVE  Written(D) \subseteq Mutations \X {"sent", "done", "dated"}
<1>1. ASSUME NEW d \in D
      PROVE  <<d[1], IF d[2] = "done" THEN "dated" ELSE d[2]>> \in Mutations \X {"sent", "done", "dated"}
  BY <1>1
<1>2. QED
  BY <1>1 DEF Written

LEMMA SuccessTyped ==
    ASSUME CacheTypeOK, NEW m \in Mutations, NEW at \in {"done", "dated"}, Success(m, at)
    PROVE  CacheTypeOK'
<1> DEFINE d == Seeded(m, at)
<1> DEFINE f == Refetched(Told(m), d)
<1>1. /\ data' = d /\ key' = key /\ owed' = Owes(m, at)
      /\ outrun' = Outruns(m, at, d)
      /\ marked' = (key \in Told(m) \/ (marked /\ key \notin Seeds(m)))
      /\ failed' = (failed /\ key \notin Seeds(m))
      /\ page' = IF Goes(m) = Here THEN page ELSE Goes(m)
      /\ fetch' = IF Goes(m) = Here THEN f ELSE Arriving(Goes(m), d, marked', f)
      /\ doing' = doing \ {<<m, at>>}
  BY DEF Success
<1>2. /\ d \in {"none", "old", "new"} /\ f \in {"none", "sent", "old", "new"}
      /\ fetch' \in {f, "sent"}
  BY <1>1 DEF CacheTypeOK, Seeded, Refetched, Arriving
<1>3. page' \in Pages
  BY <1>1, CacheAssumption DEF CacheTypeOK
<1>4. owed' \in {"nothing", "refetch", "sight"}
  BY <1>1 DEF CacheTypeOK, Owes
<1>5. doing' \subseteq Mutations \X {"sent", "done", "dated"}
  BY <1>1 DEF CacheTypeOK
<1>6. outrun' \in {"no", "coming", "landed"}
  BY <1>1 DEF CacheTypeOK, Outruns
<1>7. QED
  BY <1>1, <1>2, <1>3, <1>4, <1>5, <1>6 DEF CacheTypeOK

\* A page that is moved on to fetches what is missing or stale, as one that stays has done.
LEMMA ArrivesReading ==
    ASSUME NEW m \in Mutations, NEW at \in {"done", "dated"}, Success(m, at),
           Seeded(m, at) = "old" =>
             marked' /\ (Mounted(page) => Refetched(Told(m), Seeded(m, at)) # "none" \/ failed')
    PROVE  ReadYourWrites'
<1> DEFINE d == Seeded(m, at)
<1> DEFINE f == Refetched(Told(m), d)
<1>1. /\ data' = d /\ key' = key
      /\ page' = IF Goes(m) = Here THEN page ELSE Goes(m)
      /\ fetch' = IF Goes(m) = Here THEN f ELSE Arriving(Goes(m), d, marked', f)
  BY DEF Success
<1>2. CASE Goes(m) = Here
  BY <1>1, <1>2 DEF ReadYourWrites, Mounted, Reads
<1>3. CASE Goes(m) # Here
  BY <1>1, <1>3 DEF ReadYourWrites, Mounted, Reads, Arriving
<1>4. QED
  BY <1>2, <1>3

\* onSuccess: what is told is refetched, what is seeded is there.
LEMMA SuccessKeepsCInv ==
    ASSUME Sound, CInv, NEW m \in Mutations, NEW at \in {"done", "dated"}, Success(m, at)
    PROVE  CInv'
<1> DEFINE d == Seeded(m, at)
<1> DEFINE f == Refetched(Told(m), d)
<1>1. /\ data' = d /\ key' = key /\ owed' = Owes(m, at)
      /\ outrun' = Outruns(m, at, d)
      /\ marked' = (key \in Told(m) \/ (marked /\ key \notin Seeds(m)))
      /\ failed' = (failed /\ key \notin Seeds(m))
      /\ page' = IF Goes(m) = Here THEN page ELSE Goes(m)
      /\ fetch' = IF Goes(m) = Here THEN f ELSE Arriving(Goes(m), d, marked', f)
      /\ doing' = doing \ {<<m, at>>}
  BY DEF Success
<1>2. /\ d \in {"none", "old", "new"} /\ f \in {"none", "sent", "old", "new"}
      /\ fetch' \in {f, "sent"}
  BY <1>1 DEF CInv, CacheTypeOK, Seeded, Refetched, Arriving
<1>3. CacheTypeOK'
  BY SuccessTyped DEF CInv
<1>4. CASE owed' = "nothing" \/ outrun' = "landed"
  BY <1>3, <1>4 DEF CInv, ReadYourWrites, SeenOnArrival
<1>5. CASE owed' # "nothing" /\ outrun' # "landed"
  <2>1. /\ owed' = Owes(m, at) /\ Owes(m, at) # "nothing"
        /\ key \in Seeds(m) => at = "done"
    BY <1>1, <1>5 DEF Outruns
  <2>2. key \in Seeds(m) => d = "new"
    BY <2>1 DEF Seeded
  <2>3. key \notin Seeds(m) => d = data
    BY DEF Seeded
  <2>4. CASE ~OwesAnew(m, at)
    <3>1. owed' = owed /\ outrun' = outrun
      BY <1>1, <2>1, <2>4 DEF Owes, Outruns
    <3>2. fetch' = "old" => outrun' # "no"
      BY <1>1, <1>2, <1>5, <3>1 DEF CInv, Refetched, Arriving
    <3>3. SeenOnArrival'
      BY <1>1, <1>5, <2>2, <2>3, <3>1 DEF CInv, SeenOnArrival
    <3>4. d = "old" => marked' /\ (Mounted(page) => f # "none" \/ failed')
      BY <1>1, <1>5, <2>2, <2>3, <3>1 DEF CInv, ReadYourWrites, Refetched
    <3>5. QED
      BY <1>3, <3>2, <3>3, <3>4, ArrivesReading DEF CInv
  <2>5. CASE OwesAnew(m, at)
    <3>1. /\ at = "done" /\ key \in Changes(m) /\ <<m, key>> \notin Overlooked
          /\ owed' = "sight" => <<m, key>> \in AtSight
          /\ outrun' = IF Unstopped(m, d) THEN "coming" ELSE "no"
      BY <1>1, <2>1, <2>5 DEF Owes, Outruns, OwesAnew
    <3>2. fetch' = "old" => outrun' # "no"
      <4>1. SUFFICES ASSUME ~Unstopped(m, d) PROVE f # "old" /\ fetch' # "old"
        BY <3>1
      <4>2. f # "old"
        BY <1>2, <4>1 DEF Unstopped, Refetched, Restarts
      <4>3. QED
        BY <1>2, <4>2
    <3>3. SeenOnArrival'
      BY <1>1, <2>2, <3>1 DEF CInv, CacheTypeOK, SeenOnArrival, Sound, SightsAreSeeded
    <3>4. d = "old" => marked' /\ (Mounted(page) => f # "none" \/ failed')
      <4>1. SUFFICES ASSUME d = "old" PROVE marked' /\ (Mounted(page) => f # "none")
        OBVIOUS
      <4>2. key \in Told(m)
        BY <2>2, <3>1, <4>1 DEF Sound, TableCovers
      <4>3. Mounted(page) => f = "sent"
        BY <4>1, <4>2 DEF Refetched, Restarts
      <4>4. QED
        BY <1>1, <4>2, <4>3
    <3>5. QED
      BY <1>3, <3>2, <3>3, <3>4, ArrivesReading DEF CInv
  <2>6. QED
    BY <2>4, <2>5
<1>6. QED
  BY <1>4, <1>5

LEMMA MutationKeepsCInv ==
    ASSUME Sound, CInv, NEW m \in Mutations, MutationStep(m)
    PROVE  CInv'
<1>1. CASE Mutate(m)
  BY <1>1 DEF Mutate, cache, debt, CInv, CacheTypeOK, ReadYourWrites, SeenOnArrival, Mounted, Reads
<1>2. CASE Commit(m)
  <2>1. CASE key \in Changes(m)
    <3>1. Written(doing \ {<<m, "sent">>}) \subseteq Mutations \X {"sent", "done", "dated"}
      BY WrittenType DEF CInv, CacheTypeOK
    <3>2. Writes /\ doing' \subseteq Mutations \X {"sent", "done", "dated"}
      BY <1>2, <2>1, <3>1 DEF Commit
    <3>3. QED
      BY <3>2, WritesKeepCInv
  <2>2. CASE key \notin Changes(m)
    BY <1>2, <2>2 DEF Commit, cache, debt, CInv, CacheTypeOK, ReadYourWrites, SeenOnArrival, Mounted, Reads
  <2>3. QED
    BY <2>1, <2>2
<1>3. ASSUME NEW at \in {"sent", "done", "dated"}, Fails(m, at) PROVE CInv'
  BY <1>3 DEF Fails, Refetched, debt, CInv, CacheTypeOK, ReadYourWrites, SeenOnArrival, Mounted, Reads
<1>4. ASSUME NEW at \in {"done", "dated"}, Success(m, at) PROVE CInv'
  BY <1>4, SuccessKeepsCInv
<1>5. QED
  BY <1>1, <1>2, <1>3, <1>4 DEF MutationStep

LEMMA NextCInv == Sound /\ CInv /\ [Next]_vars => CInv'
<1>1. SUFFICES ASSUME Sound, CInv, [Next]_vars PROVE CInv'
  OBVIOUS
<1>2. CASE QueryStep \/ \E p \in Around[key] : Navigate(p)
  BY <1>1, <1>2, QueryKeepsCInv
<1>3. CASE OthersWrite
  <2>1. Writes /\ doing' \subseteq Mutations \X {"sent", "done", "dated"}
    BY <1>1, <1>3, WrittenType DEF OthersWrite, CInv, CacheTypeOK
  <2>2. QED
    BY <1>1, <2>1, WritesKeepCInv
<1>4. ASSUME NEW m \in Touching[key], MutationStep(m) PROVE CInv'
  <2>1. m \in Mutations
    BY <1>1, MutationsOfPages DEF CInv, CacheTypeOK
  <2>2. QED
    BY <1>1, <1>4, <2>1, MutationKeepsCInv
<1>5. CASE UNCHANGED vars
  BY <1>1, <1>5 DEF vars, cache, debt, CInv, CacheTypeOK, ReadYourWrites, SeenOnArrival, Mounted, Reads
<1>6. QED
  BY <1>1, <1>2, <1>3, <1>4, <1>5 DEF Next

LEMMA CacheInvariant == ASSUME Sound PROVE Spec => []CInv
<1>1. Init => CInv
  BY InitCInv
<1>2. CInv /\ [Next]_vars => CInv'
  BY NextCInv
<1>3. QED
  BY <1>1, <1>2, PTL DEF Spec

-----------------------------------------------------------------------------
\* For every table of screens that tells of its changes, the user reads his writes, unless
\* an answer older than the write has landed that nothing stopped.
THEOREM ReadYourWritesHolds == ASSUME Sound PROVE Spec => []ReadYourWrites
<1>1. Spec => []CInv
  BY CacheInvariant
<1>2. QED
  BY <1>1, PTL DEF CInv

\* For every table that seeds what its guards look at, no guard looks at the past, with
\* the same exception.
THEOREM SeenOnArrivalHolds == ASSUME Sound PROVE Spec => []SeenOnArrival
<1>1. Spec => []CInv
  BY CacheInvariant
<1>2. QED
  BY <1>1, PTL DEF CInv

-----------------------------------------------------------------------------
\* What a step leaves in the cache and in the air is of its type, whatever the table says.
LEMMA TypeKept ==
    ASSUME CacheTypeOK, [Next]_vars
    PROVE  CacheTypeOK'
<1>1. CASE UNCHANGED vars
  BY <1>1 DEF vars, cache, debt, CacheTypeOK
<1>2. ASSUME NEW p \in Around[key], Navigate(p) PROVE CacheTypeOK'
  <2>1. p \in Pages
    BY MutationsOfPages DEF CacheTypeOK
  <2>2. QED
    BY <1>2, <2>1 DEF Navigate, Arriving, debt, CacheTypeOK
<1>3. CASE QueryStep
  BY <1>3 DEF QueryStep, ServerReads, Answer, FetchFails, Age, Poll, Collect, debt, CacheTypeOK
<1>4. CASE OthersWrite
  <2>1. doing' \subseteq Mutations \X {"sent", "done", "dated"}
    BY <1>4, WrittenType DEF OthersWrite, CacheTypeOK
  <2>2. QED
    BY <1>4, <2>1 DEF OthersWrite, Writes, Outdates, CacheTypeOK
<1>5. ASSUME NEW m \in Mutations, MutationStep(m) PROVE CacheTypeOK'
  <2>1. CASE Mutate(m)
    BY <2>1 DEF Mutate, cache, debt, CacheTypeOK
  <2>2. CASE Commit(m)
    <3>1. doing \ {<<m, "sent">>} \subseteq Mutations \X {"sent", "done", "dated"}
      BY DEF CacheTypeOK
    <3>2. Written(doing \ {<<m, "sent">>}) \subseteq Mutations \X {"sent", "done", "dated"}
      BY <3>1, WrittenType
    <3>3. doing' \subseteq Mutations \X {"sent", "done", "dated"}
      <4>1. <<m, "done">> \in Mutations \X {"sent", "done", "dated"}
        OBVIOUS
      <4>2. \/ doing' = Written(doing \ {<<m, "sent">>}) \cup {<<m, "done">>}
            \/ doing' = (doing \ {<<m, "sent">>}) \cup {<<m, "done">>}
        BY <2>2 DEF Commit
      <4>3. QED
        BY <3>1, <3>2, <4>1, <4>2
    <3>4. QED
      BY <2>2, <3>3 DEF Commit, Writes, Outdates, cache, debt, CacheTypeOK
  <2>3. ASSUME NEW at \in {"sent", "done", "dated"}, Fails(m, at) PROVE CacheTypeOK'
    BY <2>3 DEF Fails, Refetched, debt, CacheTypeOK
  <2>4. ASSUME NEW at \in {"done", "dated"}, Success(m, at) PROVE CacheTypeOK'
    BY <2>4, SuccessTyped
  <2>5. QED
    BY <1>5, <2>1, <2>2, <2>3, <2>4 DEF MutationStep
<1>6. Touching[key] \subseteq Mutations
  BY MutationsOfPages DEF CacheTypeOK
<1>7. QED
  BY <1>1, <1>2, <1>3, <1>4, <1>5, <1>6 DEF Next

\* For every table of screens, sound or not, the variables hold what the code stores.
THEOREM CacheTypeCorrect == Spec => []CacheTypeOK
<1>1. Init => CacheTypeOK
  BY InitCInv DEF CInv
<1>2. CacheTypeOK /\ [Next]_vars => CacheTypeOK'
  BY TypeKept
<1>3. QED
  BY <1>1, <1>2, PTL DEF Spec
=============================================================================
