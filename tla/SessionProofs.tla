----------------------------- MODULE SessionProofs -----------------------------
(***************************************************************************)
(* What no order of answers, expiries, reloads and clicks can do to the    *)
(* session of a tab, for any number of requests in the air, tokens that    *)
(* expire and loads.                                                       *)
(*                                                                         *)
(* SInv adds to the properties what they rest on.  OneCall: whoever has a  *)
(* refresh in the air is the one everybody waits for.  Unretried: a flow   *)
(* that awaits a refresh or a mint without having been refused first is    *)
(* the boot of the gate or the way back.  BootsAlone: while the gate boots *)
(* nothing else runs, and nobody is acting as anyone; so the branch of the *)
(* gate that forgets the stored id has no impersonation to lose.           *)
(* Reasons, further down, carries from call to answer why a refresh may    *)
(* come back with nothing.                                                 *)
(***************************************************************************)
EXTENDS Session, TLAPS

Awaiting(r) == r.pc \in {"refreshing", "refreshed", "minting"}
FirstTry(r) == Awaiting(r) /\ ~r.retried
Booting == FirstTry(flow["boot"])

OneCall == \A f \in Flows : call[f] # "none" => promise = f
IdleIsBlank == \A f \in Flows : IsIdle(f) => flow[f].origin = NoOne
MayTry(f, r) == f = "boot" \/ (f = "banner" /\ r.pc # "minting")
Unretried == \A f \in Flows : FirstTry(flow[f]) => MayTry(f, flow[f])
BootsAlone ==
    Booting => /\ token = NoOne /\ imp = FALSE /\ page = "gated"
               /\ \A f \in Flows : f # "boot" => IsIdle(f)

FlowsOK == flow \in [Flows -> Flow] /\ IdleIsBlank /\ Unretried /\ BootsAlone
CallsOK == promise \in Flows \cup {NoOne} /\ call \in [Flows -> Call] /\ OneCall /\ NotLockedOut
StoreOK ==
    /\ token \in Token \cup {NoOne} /\ user \in Accounts \cup {NoOne}
    /\ imp \in BOOLEAN /\ pending \in {Target, NoOne}
    /\ CanBeRestored
RestOK ==
    /\ cookie \in Accounts \cup {NoOne} /\ page \in {"gated", "login"}
    /\ epoch \in 0 .. MaxEpoch /\ haste \in 0 .. MaxHaste
    /\ mintable \in BOOLEAN /\ asked \in BOOLEAN /\ lost \in BOOLEAN

SInv == FlowsOK /\ CallsOK /\ StoreOK /\ RestOK

LEMMA Typed == SInv => TypeOK
BY DEF SInv, FlowsOK, CallsOK, StoreOK, RestOK, TypeOK

LEMMA Names ==
    /\ "boot" \in Flows /\ "banner" \in Flows /\ "logout" \in Flows /\ "loginas" \in Flows
    /\ \A q \in Queries : q \in Flows /\ q \notin {"boot", "banner", "logout", "loginas"}
    /\ NoOne \notin Flows /\ Admin # NoOne /\ Target # NoOne /\ Admin # Target
    /\ Idle \in Flow /\ Idle.pc = "idle" /\ Idle.origin = NoOne
    /\ NoOne \notin Accounts
BY SessionAssumption DEF Flows, Idle, Flow, Accounts

\* One flow moves on.  Only the boot goes on booting, and nothing starts beside it.
LEMMA OneFlow ==
    ASSUME FlowsOK, NEW f \in Flows, NEW r \in Flow, flow' = [flow EXCEPT ![f] = r],
           r.pc = "idle" => r.origin = NoOne,
           FirstTry(r) => MayTry(f, r),
           f # "boot" => ~Booting,
           f = "boot" /\ FirstTry(r) => Booting /\ UNCHANGED <<token, imp, page>>
    PROVE  FlowsOK'
<1>1. flow' \in [Flows -> Flow] /\ flow'[f] = r /\ \A g \in Flows : g # f => flow'[g] = flow[g]
  BY DEF FlowsOK
<1>2. IdleIsBlank' /\ Unretried'
  BY <1>1 DEF FlowsOK, IdleIsBlank, IsIdle, Unretried
<1>3. BootsAlone'
  <2>1. CASE f = "boot"
    BY <1>1, <2>1 DEF FlowsOK, BootsAlone, Booting, IsIdle
  <2>2. CASE f # "boot"
    BY <1>1, <2>2, Names DEF BootsAlone, Booting
  <2>3. QED
    BY <2>1, <2>2
<1>4. QED
  BY <1>1, <1>2, <1>3 DEF FlowsOK

\* A flow that runs beside the boot means there is no boot.
LEMMA Beside ==
    ASSUME FlowsOK, NEW f \in Flows, ~IsIdle(f), f # "boot" PROVE ~Booting
BY DEF FlowsOK, BootsAlone

LEMMA FlowEnds ==
    ASSUME FlowsOK, NEW f \in Flows, ~IsIdle(f), Ends(f) PROVE FlowsOK'
<1>1. Idle.pc = "idle" /\ ~FirstTry(Idle) /\ Idle \in Flow /\ Idle.origin = NoOne
  BY Names DEF FirstTry, Awaiting
<1>2. QED
  BY <1>1, Beside, OneFlow DEF Ends, Goes

\* A request goes out, with the marks of the flow that sends it.
LEMMA FlowRequests ==
    ASSUME FlowsOK, NEW f \in Flows, NEW r \in Flow, NEW t \in Token \cup {NoOne},
           f # "boot" => ~Booting, Goes(f, Request(f, r, t))
    PROVE  FlowsOK'
<1> DEFINE s == Request(f, r, t)
<1>1. s \in Flow /\ s.pc = "http"
  BY DEF Request, Flow
<1>2. ~FirstTry(s)
  BY <1>1 DEF FirstTry, Awaiting
<1> HIDE DEF s
<1>3. QED
  BY <1>1, <1>2, OneFlow DEF Goes, s

LEMMA FreshType ==
    ASSUME RestOK, NEW a \in Accounts PROVE Fresh(a) \in Token /\ Fresh(a).of = a
BY DEF RestOK, Fresh, Token

-----------------------------------------------------------------------------
(***************************************************************************)
(* The calls.                                                              *)
(***************************************************************************)
\* Nobody asks for a refresh while one is in the air.
LEMMA OneLeader ==
    ASSUME SInv, NEW f \in Flows, NEW r \in Flow, RefreshAccessToken(f, r)
    PROVE  /\ CallsOK'
           /\ [r EXCEPT !.pc = "refreshing", !.on = Leader(f)] \in Flow
<1>1. Leader(f) \in Flows
  BY DEF Leader, SInv, CallsOK
<1>2. [r EXCEPT !.pc = "refreshing", !.on = Leader(f)] \in Flow
  BY <1>1 DEF Flow
<1>3. promise' = Leader(f)
  BY DEF RefreshAccessToken
<1>5. Carried \in Accounts \cup {"bare"}
  BY DEF Carried, SInv, RestOK
<1>6. CASE Leader(f) = f
  <2>1. promise = NoOne \/ promise = f
    BY <1>6 DEF Leader
  <2>2. call' = [call EXCEPT ![f] = Carried]
    BY <1>6 DEF RefreshAccessToken
  <2>3. \A g \in Flows : g # f => call[g] = "none"
    BY <2>1, Names DEF SInv, CallsOK, OneCall
  <2>4. call' \in [Flows -> Call]
    BY <1>5, <2>2 DEF SInv, CallsOK, Call
  <2>5. OneCall'
    BY <1>3, <1>6, <2>2, <2>3 DEF OneCall, SInv, CallsOK
  <2>6. NotLockedOut'
    BY <1>5, <2>2, <2>3, SessionAssumption DEF NotLockedOut, SInv, CallsOK, Accounts
  <2>7. QED
    BY <1>1, <1>2, <1>3, <2>4, <2>5, <2>6 DEF CallsOK
<1>7. CASE Leader(f) # f
  <2>1. promise' = promise /\ call' = call
    BY <1>3, <1>7 DEF RefreshAccessToken, Leader
  <2>2. QED
    BY <1>2, <2>1 DEF SInv, CallsOK, OneCall, NotLockedOut
<1>8. QED
  BY <1>6, <1>7

\* An answer wakes everyone who waited for it, and leaves no call in the air.
LEMMA Delivers ==
    ASSUME SInv, NEW f \in Flows, NEW t \in Token \cup {NoOne}, call[f] # "none", Deliver(f, t),
           \/ call' = [call EXCEPT ![f] = "none"]
           \/ call[f] \in Accounts /\ call' = Void([call EXCEPT ![f] = "none"], call[f], "spent")
    PROVE  FlowsOK' /\ CallsOK' /\ UNCHANGED <<store, epoch, mintable, page, haste, asked>>
<1>1. promise = f /\ \A g \in Flows : g # f => call[g] = "none"
  BY Names DEF SInv, CallsOK, OneCall
<1>2. UNCHANGED <<store, epoch, mintable, page, haste, asked>>
  BY DEF Deliver
<1>3. /\ call' \in [Flows -> Call] /\ \A g \in Flows : call'[g] = "none"
      /\ promise' = NoOne
  BY <1>1, SessionAssumption DEF SInv, CallsOK, Call, Void, Accounts, Deliver, Settled
<1>4. CallsOK'
  BY <1>3 DEF CallsOK, OneCall, NotLockedOut
<1>5. \A g \in Flows :
         \/ flow'[g] = flow[g]
         \/ /\ flow[g].pc = "refreshing"
            /\ flow'[g] = [flow[g] EXCEPT !.pc = "refreshed", !.tok = t, !.on = NoOne]
  BY DEF Deliver
<1>6. \A g \in Flows : /\ flow'[g] \in Flow
                       /\ FirstTry(flow'[g]) <=> FirstTry(flow[g])
                       /\ flow'[g].pc = "idle" <=> flow[g].pc = "idle"
                       /\ flow'[g].pc = "minting" <=> flow[g].pc = "minting"
                       /\ flow'[g].origin = flow[g].origin
  <2> SUFFICES ASSUME NEW g \in Flows
               PROVE  /\ flow'[g] \in Flow
                      /\ FirstTry(flow'[g]) <=> FirstTry(flow[g])
                      /\ flow'[g].pc = "idle" <=> flow[g].pc = "idle"
                      /\ flow'[g].pc = "minting" <=> flow[g].pc = "minting"
                      /\ flow'[g].origin = flow[g].origin
    OBVIOUS
  <2> DEFINE r == flow[g]
             s == [r EXCEPT !.pc = "refreshed", !.tok = t, !.on = NoOne]
  <2>1. r \in Flow
    BY DEF SInv, FlowsOK
  <2>2. s \in Flow /\ s.pc = "refreshed" /\ s.retried = r.retried /\ s.origin = r.origin
    BY <2>1 DEF Flow
  <2> HIDE DEF s
  <2>3. CASE flow'[g] = r
    BY <2>1, <2>3
  <2>4. CASE r.pc = "refreshing" /\ flow'[g] = s
    BY <2>2, <2>4 DEF FirstTry, Awaiting
  <2>5. QED
    BY <1>5, <2>3, <2>4 DEF s
<1>7. flow' \in [Flows -> Flow]
  BY <1>6 DEF Deliver
<1>8. Unretried' /\ IdleIsBlank'
  BY <1>6 DEF SInv, FlowsOK, Unretried, MayTry, IdleIsBlank, IsIdle
<1>9. BootsAlone'
  BY <1>2, <1>6, Names DEF SInv, FlowsOK, BootsAlone, Booting, IsIdle, store
<1>10. QED
  BY <1>2, <1>4, <1>7, <1>8, <1>9 DEF FlowsOK

\* A load starts from nothing but the cookie and the stored id.
LEMMA Loads ==
    ASSUME SInv, Load
    PROVE  /\ FlowsOK' /\ CallsOK' /\ token' = NoOne /\ user' = NoOne /\ imp' = FALSE
           /\ page' = "gated" /\ cookie' \in Accounts \cup {NoOne}
<1>1. token' = NoOne /\ user' = NoOne /\ imp' = FALSE /\ page' = "gated" /\ promise' = "boot"
  BY DEF Load, SetAuth
<1>0. cookie' \in Accounts \cup {NoOne}
  BY DEF Load, SInv, RestOK
<1> DEFINE first == [Idle EXCEPT !.pc = "refreshing", !.on = "boot"]
<1>2. first \in Flow /\ first.pc = "refreshing" /\ first.origin = NoOne
  BY Names DEF Idle, Flow
<1>3. \A g \in Flows : flow'[g] = IF g = "boot" THEN first ELSE Idle
  BY DEF Load
<1>4. flow' \in [Flows -> Flow]
  BY <1>2, Names DEF Load
<1> HIDE DEF first
<1>5. Unretried' /\ IdleIsBlank' /\ BootsAlone'
  BY <1>1, <1>2, <1>3, Names
  DEF Unretried, MayTry, IdleIsBlank, IsIdle, BootsAlone, FirstTry, Awaiting
<1>6. Carried \in Accounts \cup {"bare"}
  BY DEF Carried, SInv, RestOK
<1>7. PICK c \in Call : call' = [g \in Flows |-> IF g = "boot" THEN c ELSE "none"]
  BY <1>6 DEF Load, Call
<1>8. CallsOK'
  BY <1>1, <1>7, Names DEF CallsOK, OneCall, NotLockedOut, Call
<1>9. QED
  BY <1>0, <1>1, <1>4, <1>5, <1>8 DEF FlowsOK

-----------------------------------------------------------------------------
(***************************************************************************)
(* The steps.                                                              *)
(***************************************************************************)
LEMMA InitSInv == Init => SInv
<1> SUFFICES ASSUME Init PROVE SInv
  OBVIOUS
<1>1. FlowsOK
  BY Names DEF Init, FlowsOK, IdleIsBlank, Unretried, BootsAlone, Booting, FirstTry, Awaiting
<1>2. CallsOK
  BY DEF Init, CallsOK, OneCall, NotLockedOut, Call
<1>3. StoreOK
  BY DEF Init, StoreOK, CanBeRestored
<1>4. RestOK
  <2>1. 0 \in 0 .. MaxEpoch /\ 0 \in 0 .. MaxHaste
    BY SMT, SessionAssumption
  <2>2. QED
    BY <2>1 DEF Init, RestOK, Accounts
<1>5. QED
  BY <1>1, <1>2, <1>3, <1>4 DEF SInv

\* The interceptor goes on, with a token or without.
LEMMA ContinueKeeps ==
    ASSUME SInv, NEW f \in Flows, Continue(f) PROVE SInv'
<1>1. /\ flow[f].pc = "refreshed" /\ flow[f].retried /\ flow[f] \in Flow /\ ~IsIdle(f)
      /\ UNCHANGED <<server, promise, call, haste>>
  BY DEF Continue, GiveUp, Retry, Remint, Resumed, SInv, FlowsOK, IsIdle
<1>2. CallsOK'
  BY <1>1 DEF SInv, CallsOK, OneCall, NotLockedOut
<1>3. f # "boot" => ~Booting
  BY <1>1, Beside DEF SInv
<1>4. CASE GiveUp(f)
  <2>1. FlowsOK'
    BY <1>1, <1>4, FlowEnds DEF GiveUp, SInv
  <2>2. StoreOK' /\ RestOK'
    BY <1>1, <1>4 DEF GiveUp, ClearAuth, SetAuth, StopImpersonation, StoreOK, CanBeRestored,
                      RestOK, SInv, server
  <2>3. QED
    BY <1>2, <2>1, <2>2 DEF SInv
<1>5. CASE Retry(f)
  <2>1. flow[f].tok \in Token
    BY <1>1, <1>5 DEF Retry, Flow
  <2>2. FlowsOK'
    BY <1>1, <1>3, <1>5, <2>1, FlowRequests DEF Retry, SInv
  <2>3. StoreOK' /\ RestOK'
    BY <1>1, <1>5, <2>1 DEF Retry, SetAccessToken, KeepImpersonation, StoreOK, CanBeRestored,
                            RestOK, SInv, server
  <2>4. QED
    BY <1>2, <2>2, <2>3 DEF SInv
<1>6. CASE Remint(f)
  <2> DEFINE r == [flow[f] EXCEPT !.pc = "minting"]
  <2>1. r \in Flow /\ r.pc = "minting" /\ ~FirstTry(r)
    BY <1>1 DEF Flow, FirstTry
  <2>2. flow' = [flow EXCEPT ![f] = r]
    BY <1>6 DEF Remint, Goes
  <2> HIDE DEF r
  <2>3. FlowsOK'
    BY <1>3, <2>1, <2>2, OneFlow DEF SInv
  <2>4. StoreOK' /\ RestOK'
    BY <1>1, <1>6 DEF Remint, StoreOK, CanBeRestored, RestOK, SInv, server, store
  <2>5. QED
    BY <1>2, <2>3, <2>4 DEF SInv
<1>7. QED
  BY <1>4, <1>5, <1>6 DEF Continue

\* The gate asks who this is, with its own session.
LEMMA BootAsks ==
    ASSUME SInv, NEW t \in Token \cup {NoOne}, flow["boot"].pc \in {"refreshed", "minting"},
           SetAccessToken(t), UNCHANGED imp,
           Goes("boot", Request("boot", [flow["boot"] EXCEPT !.kept = t], t)),
           pending' \in {pending, NoOne}, imp = TRUE => UNCHANGED pending
    PROVE  FlowsOK' /\ StoreOK'
<1>1. [flow["boot"] EXCEPT !.kept = t] \in Flow
  BY Names DEF SInv, FlowsOK, Flow
<1>2. FlowsOK'
  BY <1>1, Names, FlowRequests DEF SInv
<1>3. StoreOK'
  BY DEF SInv, StoreOK, CanBeRestored, SetAccessToken
<1>4. QED
  BY <1>2, <1>3

LEMMA BootRefreshedKeeps ==
    ASSUME SInv, BootRefreshed PROVE SInv'
<1> DEFINE r == flow["boot"]
<1>0. r.pc = "refreshed" /\ ~r.retried /\ UNCHANGED <<server, promise, call, haste>>
  BY DEF BootRefreshed, BootAsSelf
<1>1. /\ r.pc = "refreshed" /\ ~r.retried /\ r \in Flow /\ ~IsIdle("boot") /\ Booting
      /\ UNCHANGED <<server, promise, call, haste>>
  BY <1>0, Names DEF SInv, FlowsOK, IsIdle, Booting, FirstTry, Awaiting
<1>2. CallsOK'
  BY <1>1 DEF SInv, CallsOK, OneCall, NotLockedOut
<1>3. RestOK'
  BY <1>1 DEF BootRefreshed, BootAsSelf, RestOK, SInv, server
<1>4. CASE r.tok = NoOne
  <2>1. FlowsOK'
    BY <1>1, <1>4, Names, FlowEnds DEF BootRefreshed, SInv
  <2>2. StoreOK'
    BY <1>4 DEF BootRefreshed, StoreOK, CanBeRestored, SInv, store
  <2>3. QED
    BY <1>2, <1>3, <2>1, <2>2 DEF SInv
<1>5. CASE r.tok # NoOne /\ pending # NoOne
  <2> DEFINE s == [r EXCEPT !.pc = "minting"]
  <2>1. s \in Flow /\ s.pc = "minting"
    BY <1>1 DEF Flow
  <2>2. flow' = [flow EXCEPT !["boot"] = s] /\ UNCHANGED <<store, page>>
    BY <1>5 DEF BootRefreshed, Goes
  <2> HIDE DEF s
  <2>3. FlowsOK'
    BY <1>1, <2>1, <2>2, Names, OneFlow DEF SInv, MayTry, store
  <2>4. StoreOK'
    BY <2>2 DEF StoreOK, CanBeRestored, SInv, store
  <2>5. QED
    BY <1>2, <1>3, <2>3, <2>4 DEF SInv
<1>6. CASE r.tok # NoOne /\ pending = NoOne
  <2>1. r.tok \in Token /\ BootAsSelf(r.tok) /\ UNCHANGED pending
    BY <1>1, <1>6 DEF BootRefreshed, Flow
  <2>2. FlowsOK' /\ StoreOK'
    BY <1>1, <2>1, BootAsks DEF BootAsSelf
  <2>3. QED
    BY <1>2, <1>3, <2>2 DEF SInv
<1>7. QED
  BY <1>4, <1>5, <1>6

LEMMA ReturnRefreshedKeeps ==
    ASSUME SInv, ReturnRefreshed PROVE SInv'
<1> DEFINE r == flow["banner"]
<1>1. /\ r.pc = "refreshed" /\ r \in Flow /\ ~IsIdle("banner")
      /\ UNCHANGED <<server, promise, call, haste>>
  BY Names DEF ReturnRefreshed, SInv, FlowsOK, IsIdle
<1>2. CallsOK'
  BY <1>1 DEF SInv, CallsOK, OneCall, NotLockedOut
<1>3. "banner" # "boot" /\ ~Booting
  BY <1>1, Names, Beside DEF SInv
<1>4. CASE r.tok = NoOne
  <2>1. FlowsOK'
    BY <1>1, <1>4, Names, FlowEnds DEF ReturnRefreshed, SInv
  <2>2. StoreOK' /\ RestOK'
    BY <1>1, <1>4 DEF ReturnRefreshed, ClearAuth, SetAuth, StopImpersonation, StoreOK,
                      CanBeRestored, RestOK, SInv, server
  <2>3. QED
    BY <1>2, <2>1, <2>2 DEF SInv
<1>5. CASE r.tok # NoOne
  <2>1. r.tok \in Token /\ [r EXCEPT !.kept = r.tok] \in Flow
    BY <1>1, <1>5 DEF Flow
  <2>2. FlowsOK'
    BY <1>3, <1>5, <2>1, Names, FlowRequests DEF ReturnRefreshed, SInv
  <2>3. StoreOK' /\ RestOK'
    BY <1>1, <1>5, <2>1 DEF ReturnRefreshed, SetAccessToken, KeepImpersonation, StoreOK,
                            CanBeRestored, RestOK, SInv, server
  <2>4. QED
    BY <1>2, <2>2, <2>3 DEF SInv
<1>6. QED
  BY <1>4, <1>5

-----------------------------------------------------------------------------
(***************************************************************************)
(* The answers.                                                            *)
(***************************************************************************)
LEMMA RefreshKeeps ==
    ASSUME SInv, NEW f \in Flows, RefreshHonoured(f) \/ RefreshRefused(f) \/ RefreshLost(f)
    PROVE  SInv'
<1>1. call[f] # "none"
  BY SessionAssumption DEF RefreshHonoured, RefreshRefused, RefreshLost, Accounts
<1>2. PICK t \in Token \cup {NoOne} : Deliver(f, t)
  BY FreshType DEF RefreshHonoured, RefreshRefused, RefreshLost, SInv
<1>3. \/ call' = [call EXCEPT ![f] = "none"]
      \/ call[f] \in Accounts /\ call' = Void([call EXCEPT ![f] = "none"], call[f], "spent")
  BY DEF RefreshHonoured, RefreshRefused, RefreshLost
<1>4. FlowsOK' /\ CallsOK' /\ UNCHANGED <<store, epoch, mintable, page, haste, asked>>
  BY <1>1, <1>2, <1>3, Delivers
<1>5. cookie' \in Accounts \cup {NoOne} /\ lost' \in BOOLEAN
  BY DEF RefreshHonoured, RefreshRefused, RefreshLost, SInv, RestOK
<1>6. StoreOK'
  BY <1>4 DEF SInv, StoreOK, CanBeRestored, store
<1>7. RestOK'
  BY <1>4, <1>5 DEF SInv, RestOK
<1>8. QED
  BY <1>4, <1>6, <1>7 DEF SInv

LEMMA SucceedKeeps ==
    ASSUME SInv, NEW f \in Flows, Succeed(f) PROVE SInv'
<1> DEFINE r == flow[f]
<1>1. /\ r.pc = "http" /\ r \in Flow /\ ~IsIdle(f) /\ r.tok \in Token
      /\ Ends(f) /\ UNCHANGED <<epoch, mintable, lost, promise, haste>>
  BY DEF Succeed, SInv, FlowsOK, IsIdle, Flow, Live
<1>2. FlowsOK'
  BY <1>1, FlowEnds DEF SInv
<1>3. CASE f = "logout"
  <2>1. LogoutEnds /\ cookie' = NoOne /\ call' = Void(call, cookie, "bare")
    BY <1>3 DEF Succeed
  <2>2. \A g \in Flows : call'[g] \in Call /\ (call'[g] = call[g] \/ (call[g] # "none" /\ call'[g] = "bare"))
    <3>1. \A g \in Flows : call[g] \in Call /\ call'[g] = IF call[g] = cookie THEN "bare" ELSE call[g]
      BY <2>1 DEF Void, SInv, CallsOK
    <3>2. "none" # cookie
      BY SessionAssumption DEF SInv, RestOK, Accounts
    <3>3. "bare" \in Call
      BY DEF Call
    <3>4. QED
      BY <3>1, <3>2, <3>3
  <2>3. call' \in [Flows -> Call]
    BY <2>1, <2>2 DEF Void
  <2>4. CallsOK'
    BY <1>1, <2>2, <2>3 DEF SInv, CallsOK, OneCall, NotLockedOut
  <2>5. StoreOK' /\ RestOK'
    BY <1>1, <2>1 DEF LogoutEnds, ClearAuth, SetAuth, StopImpersonation, StoreOK, CanBeRestored,
                      RestOK, SInv
  <2>6. QED
    BY <1>2, <2>4, <2>5 DEF SInv
<1>4. CASE f # "logout"
  <2>1. UNCHANGED <<cookie, call>>
    BY <1>4 DEF Succeed
  <2>2. CallsOK'
    BY <1>1, <2>1 DEF SInv, CallsOK, OneCall, NotLockedOut
  <2>3. LoginAsSucceeds \/ BootSucceeds(r) \/ ReturnSucceeds(r) \/ NothingChanges
    BY <1>4 DEF Succeed
  <2>4. page' \in {"gated", "login"} /\ asked' \in BOOLEAN
    BY <2>3 DEF LoginAsSucceeds, BootSucceeds, ReturnSucceeds, NothingChanges, SInv, RestOK
  <2>5. RestOK'
    BY <1>1, <2>1, <2>4 DEF SInv, RestOK
  <2>6. r.tok.of \in Accounts /\ r.kept \in Token \cup {NoOne} /\ Fresh(Target) \in Token
    BY <1>1, FreshType DEF Token, Flow, Accounts, SInv
  <2>7. StoreOK'
    <3>1. CASE LoginAsSucceeds
      BY <2>6, <3>1 DEF LoginAsSucceeds, StartImpersonation, SetAuth, StoreOK, CanBeRestored, Accounts
    <3>2. CASE BootSucceeds(r)
      BY <2>6, <3>2 DEF BootSucceeds, SetAuth, KeepImpersonation, NothingChanges, StoreOK,
                        CanBeRestored, SInv, store
    <3>3. CASE ReturnSucceeds(r)
      BY <2>6, <3>3 DEF ReturnSucceeds, SetAuth, StopImpersonation, StoreOK, CanBeRestored
    <3>4. CASE NothingChanges
      BY <3>4 DEF NothingChanges, StoreOK, CanBeRestored, SInv, store
    <3>5. QED
      BY <2>3, <3>1, <3>2, <3>3, <3>4
  <2>8. QED
    BY <1>2, <2>2, <2>5, <2>7 DEF SInv
<1>5. QED
  BY <1>3, <1>4

LEMMA FailsKeeps ==
    ASSUME SInv, NEW f \in Flows, ~IsIdle(f), Fails(f), UNCHANGED <<server, promise, call, haste>>
    PROVE  SInv'
<1>1. FlowsOK'
  BY FlowEnds DEF Fails, SInv
<1>2. CallsOK'
  BY DEF SInv, CallsOK, OneCall, NotLockedOut
<1>3. LogoutEnds \/ NothingChanges
  BY DEF Fails
<1>4. CASE LogoutEnds
  <2>1. StoreOK'
    BY <1>4 DEF LogoutEnds, ClearAuth, SetAuth, StopImpersonation, StoreOK, CanBeRestored
  <2>2. RestOK'
    BY <1>4 DEF LogoutEnds, RestOK, SInv, server
  <2>3. QED
    BY <1>1, <1>2, <2>1, <2>2 DEF SInv
<1>5. CASE NothingChanges
  BY <1>1, <1>2, <1>5 DEF NothingChanges, StoreOK, CanBeRestored, RestOK, SInv, server, store
<1>6. QED
  BY <1>3, <1>4, <1>5

LEMMA UnauthorizedKeeps ==
    ASSUME SInv, NEW f \in Flows, Unauthorized(f) PROVE SInv'
<1> DEFINE r == [flow[f] EXCEPT !.retried = TRUE]
<1>1. flow[f].pc = "http" /\ flow[f] \in Flow /\ ~IsIdle(f) /\ UNCHANGED <<server, haste>>
  BY DEF Unauthorized, SInv, FlowsOK, IsIdle
<1>2. CASE flow[f].retried
  BY <1>1, <1>2, FailsKeeps DEF Unauthorized
<1>3. CASE ~flow[f].retried
  <2>1. r \in Flow /\ r.retried
    BY <1>1 DEF Flow
  <2>2. RefreshAccessToken(f, r) /\ UNCHANGED <<store, page, asked>>
    BY <1>3 DEF Unauthorized
  <2> HIDE DEF r
  <2> DEFINE s == [r EXCEPT !.pc = "refreshing", !.on = Leader(f)]
  <2>3. CallsOK' /\ s \in Flow
    BY <2>1, <2>2, OneLeader
  <2>4. s.pc = "refreshing" /\ s.retried /\ flow' = [flow EXCEPT ![f] = s]
    BY <2>1, <2>2 DEF Flow, RefreshAccessToken, Goes
  <2> HIDE DEF s
  <2>5. ~FirstTry(s) /\ s.pc # "idle"
    BY <2>4 DEF FirstTry
  <2>6. f # "boot" => ~Booting
    BY <1>1, Beside DEF SInv
  <2>7. FlowsOK'
    BY <2>3, <2>4, <2>5, <2>6, OneFlow DEF SInv
  <2>8. StoreOK' /\ RestOK'
    BY <1>1, <2>2 DEF StoreOK, CanBeRestored, RestOK, SInv, server, store
  <2>9. QED
    BY <2>3, <2>7, <2>8 DEF SInv
<1>4. QED
  BY <1>2, <1>3

\* A mint that the server grants, refuses or leaves unanswered.
LEMMA MintKeeps ==
    ASSUME SInv, NEW f \in Flows, Minted(f) \/ MintRefused(f) \/ MintFails(f) PROVE SInv'
<1> DEFINE r == flow[f]
<1>1. /\ r.pc = "minting" /\ r \in Flow /\ ~IsIdle(f)
      /\ UNCHANGED <<epoch, mintable, lost, haste>>
  BY DEF Minted, MintRefused, MintFails, Minting, SInv, FlowsOK, IsIdle
<1>2. f # "boot" => ~Booting
  BY <1>1, Beside DEF SInv
<1>3. CASE Minted(f)
  <2>1. Fresh(Target) \in Token
    BY FreshType DEF Accounts, SInv
  <2>2. UNCHANGED <<cookie, promise, call, page, asked>> /\ StartImpersonation(Fresh(Target), Target)
    BY <1>3 DEF Minted
  <2>3. CallsOK'
    BY <2>2 DEF SInv, CallsOK, OneCall, NotLockedOut
  <2>4. StoreOK' /\ RestOK'
    BY <1>1, <2>1, <2>2 DEF StartImpersonation, SetAuth, StoreOK, CanBeRestored, RestOK, SInv,
                            Accounts
  <2>5. Goes(f, Request(f, r, Fresh(Target))) \/ Ends(f)
    BY <1>3 DEF Minted
  <2>6. FlowsOK'
    BY <1>1, <1>2, <2>1, <2>5, FlowRequests, FlowEnds DEF SInv
  <2>7. QED
    BY <2>3, <2>4, <2>6 DEF SInv
<1>4. CASE ~Minted(f) /\ ~r.retried
  <2>1. f = "boot" /\ Booting
    BY <1>1, <1>4 DEF SInv, FlowsOK, Unretried, MayTry, FirstTry, Awaiting, Booting
  <2>2. imp = FALSE
    BY <2>1 DEF SInv, FlowsOK, BootsAlone
  <2>3. r.tok \in Token \cup {NoOne}
    BY <1>1 DEF Flow
  <2>4. /\ SetAccessToken(r.tok) /\ UNCHANGED <<imp, cookie, promise, call, page, asked>>
        /\ Goes("boot", Request("boot", [r EXCEPT !.kept = r.tok], r.tok))
        /\ pending' \in {pending, NoOne}
    <3>1. CASE MintRefused(f)
      BY <1>4, <2>1, <3>1 DEF MintRefused, RefusalEnds
    <3>2. CASE MintFails(f)
      BY <1>4, <2>1, <3>2 DEF MintFails, MintLost, BootAsSelf
    <3>3. QED
      BY <1>4, <3>1, <3>2
  <2>5. FlowsOK' /\ StoreOK'
    BY <1>1, <2>1, <2>2, <2>3, <2>4, BootAsks
  <2>6. CallsOK' /\ RestOK'
    BY <1>1, <2>4 DEF CallsOK, OneCall, NotLockedOut, RestOK, SInv
  <2>7. QED
    BY <2>5, <2>6 DEF SInv
<1>5. CASE MintRefused(f) /\ r.retried
  <2>1. Load /\ pending' = NoOne /\ UNCHANGED asked
    BY <1>5 DEF MintRefused, RefusalEnds
  <2>2. /\ FlowsOK' /\ CallsOK' /\ token' = NoOne /\ user' = NoOne /\ imp' = FALSE
        /\ page' = "gated" /\ cookie' \in Accounts \cup {NoOne}
    BY <2>1, Loads
  <2>3. StoreOK' /\ RestOK'
    BY <1>1, <2>1, <2>2 DEF StoreOK, CanBeRestored, RestOK, SInv
  <2>4. QED
    BY <2>2, <2>3 DEF SInv
<1>6. CASE MintFails(f) /\ r.retried
  <2>1. Fails(f) /\ UNCHANGED <<cookie, promise, call>>
    BY <1>6 DEF MintFails, MintLost
  <2>2. QED
    BY <1>1, <2>1, FailsKeeps DEF server
<1>7. QED
  BY <1>3, <1>4, <1>5, <1>6

-----------------------------------------------------------------------------
(***************************************************************************)
(* What the person starts, and what happens around the tab.                *)
(***************************************************************************)
LEMMA HasteKeeps == ASSUME SInv, UNCHANGED haste \/ Hastens PROVE haste' \in 0 .. MaxHaste
BY SessionAssumption, SMT DEF SInv, RestOK, Hastens

LEMMA AsksKeep ==
    ASSUME SInv, NEW f \in Flows, NEW o \in Accounts \cup {NoOne}, Shell, Asks(f, o),
           UNCHANGED haste \/ Hastens
    PROVE  SInv'
<1> DEFINE s == [Request(f, Idle, token) EXCEPT !.origin = o]
<1>1. token \in Token /\ token.of \in Accounts
  BY DEF Shell, SInv, StoreOK, Token
<1>2. s \in Flow /\ s.pc = "http"
  BY <1>1, Names DEF Request, Idle, Flow
<1>3. flow' = [flow EXCEPT ![f] = s]
  BY DEF Asks, Goes
<1> HIDE DEF s
<1>4. ~Booting
  BY DEF Shell, SInv, FlowsOK, BootsAlone
<1>5. FlowsOK'
  <2>1. ~FirstTry(s) /\ s.pc # "idle"
    BY <1>2 DEF FirstTry, Awaiting
  <2>2. QED
    BY <1>2, <1>3, <1>4, <2>1, OneFlow DEF SInv
<1>6. haste' \in 0 .. MaxHaste
  BY HasteKeeps
<1>7. CallsOK' /\ StoreOK' /\ RestOK'
  BY <1>6 DEF Asks, CallsOK, OneCall, NotLockedOut, StoreOK, CanBeRestored, RestOK, SInv,
              server, store
<1>8. QED
  BY <1>5, <1>7 DEF SInv

\* What a person at the shell can ask for.
LEMMA Asked ==
    ASSUME SInv, (\E q \in Queries : Query(q)) \/ Logout \/ LoginAs
    PROVE  Shell /\ (UNCHANGED haste \/ Hastens)
           /\ \E f \in Flows, o \in Accounts \cup {NoOne} : Asks(f, o)
<1>1. CASE \E q \in Queries : Query(q)
  <2>1. PICK q \in Queries : Query(q)
    BY <1>1
  <2>2. token.of \in Accounts
    BY <2>1 DEF Query, Shell, SInv, StoreOK, Token
  <2>3. QED
    BY <2>1, <2>2, Names DEF Query
<1>2. CASE Logout \/ LoginAs
  BY <1>2, Names DEF Logout, LoginAs, Commanded
<1>3. QED
  BY <1>1, <1>2

LEMMA ReturnKeeps == ASSUME SInv, Return PROVE SInv'
<1> DEFINE s == [Idle EXCEPT !.pc = "refreshing", !.on = Leader("banner")]
<1>1. CallsOK' /\ s \in Flow
  BY Names, OneLeader DEF Return
<1>2. s.pc = "refreshing" /\ flow' = [flow EXCEPT !["banner"] = s]
  BY DEF Idle, Return, RefreshAccessToken, Goes
<1> HIDE DEF s
<1>3. ~Booting
  BY DEF Return, Commanded, Shell, SInv, FlowsOK, BootsAlone
<1>4. FlowsOK'
  BY <1>1, <1>2, <1>3, Names, OneFlow DEF SInv, MayTry
<1>5. haste' \in 0 .. MaxHaste
  BY HasteKeeps DEF Return, Commanded
<1>6. StoreOK' /\ RestOK'
  BY <1>5 DEF Return, StoreOK, CanBeRestored, RestOK, SInv, server, store
<1>7. QED
  BY <1>1, <1>4, <1>6 DEF SInv

LEMMA LoginKeeps == ASSUME SInv, NEW a \in Accounts, Login(a) PROVE SInv'
<1> DEFINE s == [flow["boot"] EXCEPT !.kept = NoOne]
<1>1. s \in Flow /\ s.pc = flow["boot"].pc /\ s.retried = flow["boot"].retried
      /\ s.origin = flow["boot"].origin
  BY Names DEF SInv, FlowsOK, Flow
<1>2. flow' = [flow EXCEPT !["boot"] = s]
  BY DEF Login
<1> HIDE DEF s
<1>3. ~Booting
  BY DEF Login, SInv, FlowsOK, BootsAlone
<1>4. ~FirstTry(s) /\ (s.pc = "idle" => s.origin = NoOne)
  BY <1>1, <1>3, Names DEF Booting, FirstTry, Awaiting, SInv, FlowsOK, IdleIsBlank, IsIdle
<1>5. FlowsOK'
  BY <1>1, <1>2, <1>4, Names, OneFlow DEF SInv
<1>6. CallsOK'
  BY DEF Login, CallsOK, OneCall, NotLockedOut, SInv
<1>7. StoreOK' /\ RestOK'
  BY FreshType DEF Login, SetAuth, KeepImpersonation, StoreOK, CanBeRestored, RestOK, SInv
<1>8. QED
  BY <1>5, <1>6, <1>7 DEF SInv

LEMMA ReloadKeeps == ASSUME SInv, Reload PROVE SInv'
<1>1. Load /\ Hastens /\ UNCHANGED <<epoch, mintable, lost, pending, asked>>
  BY DEF Reload
<1>2. /\ FlowsOK' /\ CallsOK' /\ token' = NoOne /\ user' = NoOne /\ imp' = FALSE
      /\ page' = "gated" /\ cookie' \in Accounts \cup {NoOne}
  BY <1>1, Loads
<1>3. haste' \in 0 .. MaxHaste
  BY <1>1, HasteKeeps
<1>4. StoreOK' /\ RestOK'
  BY <1>1, <1>2, <1>3 DEF StoreOK, CanBeRestored, RestOK, SInv
<1>5. QED
  BY <1>2, <1>4 DEF SInv

\* Steps that leave the tab as it is.
LEMMA AroundKeeps ==
    ASSUME SInv, UNCHANGED <<store, cookie, lost, flow, promise, call, page, haste, asked>>,
           epoch' \in 0 .. MaxEpoch, mintable' \in BOOLEAN
    PROVE  SInv'
<1>1. FlowsOK'
  BY DEF SInv, FlowsOK, IdleIsBlank, IsIdle, Unretried, BootsAlone, Booting, store
<1>2. CallsOK' /\ StoreOK' /\ RestOK'
  BY DEF SInv, CallsOK, OneCall, NotLockedOut, StoreOK, CanBeRestored, RestOK, store
<1>3. QED
  BY <1>1, <1>2 DEF SInv

LEMMA NextSInv == ASSUME SInv, [Next]_vars PROVE SInv'
<1>1. CASE UNCHANGED vars
  BY <1>1, AroundKeeps DEF vars, store, server, SInv, RestOK
<1>2. CASE Expire
  <2>1. epoch' \in 0 .. MaxEpoch
    BY <1>2, SessionAssumption, SMT DEF Expire, SInv, RestOK
  <2>2. QED
    BY <1>2, <2>1, AroundKeeps DEF Expire, SInv, RestOK
<1>3. CASE Forbid
  BY <1>3, AroundKeeps DEF Forbid, SInv, RestOK
<1>4. CASE \E f \in Flows : Continue(f)
  BY <1>4, ContinueKeeps
<1>5. CASE BootRefreshed \/ ReturnRefreshed
  BY <1>5, BootRefreshedKeeps, ReturnRefreshedKeeps
<1>6. CASE \E f \in Flows : Answer(f)
  <2> SUFFICES ASSUME NEW f \in Flows, Answer(f) PROVE SInv'
    BY <1>6
  <2>1. CASE Fail(f)
    BY <2>1, FailsKeeps DEF Fail, IsIdle
  <2>2. QED
    BY <2>1, SucceedKeeps, UnauthorizedKeeps, RefreshKeeps, MintKeeps DEF Answer
<1>7. CASE (\E q \in Queries : Query(q)) \/ Logout \/ LoginAs
  BY <1>7, Asked, AsksKeep
<1>8. CASE Return \/ (\E a \in Accounts : Login(a)) \/ Reload
  BY <1>8, ReturnKeeps, LoginKeeps, ReloadKeeps
<1>9. QED
  BY <1>1, <1>2, <1>3, <1>4, <1>5, <1>6, <1>7, <1>8 DEF Next, Continuations

LEMMA Invariant == Spec => []SInv
<1>1. SInv /\ [Next]_vars => SInv'
  BY NextSInv
<1>2. QED
  BY <1>1, InitSInv, PTL DEF Spec

\* Every reachable state of the tab is well-typed (auth-store.ts, client.ts).
THEOREM SessionTypeCorrect == Spec => []TypeOK
BY Invariant, Typed, PTL

\* Whoever acts as someone else can be brought back there by a load (auth-store.ts).
THEOREM CanBeRestoredHolds == Spec => []CanBeRestored
<1>1. SInv => CanBeRestored
  BY DEF SInv, StoreOK
<1>2. QED
  BY <1>1, Invariant, PTL

\* Within a page load the tab never spends its own session (client.ts, refreshPromise).
THEOREM NotLockedOutHolds == Spec => []NotLockedOut
<1>1. SInv => NotLockedOut
  BY DEF SInv, CallsOK
<1>2. QED
  BY <1>1, Invariant, PTL

-----------------------------------------------------------------------------
\* A query leaves again after a 401 only with the token of its retry: the admin's own when
\* no id is stored, the target's when one is.
LEMMA Replays ==
    ASSUME SInv, [Next]_vars, NEW q \in Queries, flow[q].pc # "http", flow'[q].pc = "http",
           flow[q].origin = Target, imp
    PROVE  flow'[q].tok.of = Target
<1> DEFINE Untouched == flow'[q].pc # "http" \/ flow'[q] = flow[q]
<1>1. q \in Flows /\ q \notin {"boot", "banner", "logout", "loginas"} /\ flow \in [Flows -> Flow]
  BY Names DEF SInv, FlowsOK
<1>2. ASSUME NEW f \in Flows, NEW r, Goes(f, r), f # q PROVE Untouched
  BY <1>1, <1>2 DEF Goes
<1>3. ASSUME NEW f \in Flows, Ends(f) PROVE Untouched
  BY <1>1, <1>3, Names DEF Ends, Goes
<1>4. ASSUME NEW f \in Flows, NEW r \in Flow, RefreshAccessToken(f, r) PROVE Untouched
  BY <1>1, <1>4 DEF RefreshAccessToken, Goes, Flow
<1>5. ASSUME Load PROVE Untouched
  BY <1>1, <1>5, Names DEF Load
<1>6. ASSUME NEW f \in Flows, NEW t, Deliver(f, t) PROVE Untouched
  <2>1. \/ flow'[q] = flow[q]
        \/ flow'[q] = [flow[q] EXCEPT !.pc = "refreshed", !.tok = t, !.on = NoOne]
    BY <1>1, <1>6 DEF Deliver
  <2>2. QED
    BY <1>1, <2>1 DEF Flow
<1>7. Untouched \/ \E f \in Flows : Retry(f) \/ Minted(f)
  <2>1. CASE UNCHANGED vars \/ Expire \/ Forbid
    BY <2>1 DEF vars, Expire, Forbid
  <2>2. ASSUME NEW f \in Flows, GiveUp(f) \/ Remint(f) PROVE Untouched
    <3>1. CASE GiveUp(f)
      BY <1>3, <3>1 DEF GiveUp
    <3>2. CASE Remint(f)
      BY <1>1, <3>2 DEF Remint, Goes, Flow
    <3>3. QED
      BY <2>2, <3>1, <3>2
  <2>3. CASE BootRefreshed \/ ReturnRefreshed
    BY <1>1, <1>2, <1>3, <2>3, Names DEF BootRefreshed, BootAsSelf, ReturnRefreshed
  <2>4. ASSUME NEW f \in Flows, Succeed(f) \/ Fail(f) \/ Unauthorized(f) PROVE Untouched
    <3>1. [flow[f] EXCEPT !.retried = TRUE] \in Flow
      BY <1>1 DEF Flow
    <3>2. QED
      BY <1>3, <1>4, <2>4, <3>1 DEF Succeed, Fail, Fails, Unauthorized
  <2>5. ASSUME NEW f \in Flows, RefreshHonoured(f) \/ RefreshRefused(f) \/ RefreshLost(f)
        PROVE  Untouched
    BY <1>6, <2>5 DEF RefreshHonoured, RefreshRefused, RefreshLost
  <2>6. ASSUME NEW f \in Flows, MintRefused(f) \/ MintFails(f) PROVE Untouched
    <3>1. CASE flow[f].retried
      BY <1>3, <1>5, <2>6, <3>1 DEF MintRefused, RefusalEnds, MintFails, MintLost, Fails
    <3>2. CASE ~flow[f].retried
      <4>1. f = "boot"
        BY <2>6, <3>2 DEF MintRefused, MintFails, Minting, SInv, FlowsOK, Unretried, MayTry,
                          FirstTry, Awaiting
      <4>2. QED
        BY <1>1, <1>2, <2>6, <3>2, <4>1
        DEF MintRefused, RefusalEnds, MintFails, MintLost, BootAsSelf
    <3>3. QED
      BY <3>1, <3>2
  <2>7. CASE (\E f \in Queries : Query(f)) \/ Logout \/ LoginAs
    <3>1. PICK f \in Flows, o \in Accounts \cup {NoOne} : Asks(f, o)
      BY <2>7, Asked
    <3>2. f # q
      BY <1>1, <3>1, Names DEF Asks, SInv, FlowsOK, IdleIsBlank
    <3>3. QED
      BY <1>2, <3>1, <3>2 DEF Asks
  <2>8. CASE Return \/ (\E a \in Accounts : Login(a)) \/ Reload
    <3>1. CASE Return
      BY <1>4, <3>1, Names DEF Return
    <3>2. CASE \E a \in Accounts : Login(a)
      BY <1>1, <3>2 DEF Login
    <3>3. CASE Reload
      BY <1>5, <3>3 DEF Reload
    <3>4. QED
      BY <2>8, <3>1, <3>2, <3>3
  <2>9. QED
    BY <2>1, <2>2, <2>3, <2>4, <2>5, <2>6, <2>7, <2>8
    DEF Next, Continuations, Continue, Answer
<1>8. PICK f \in Flows : ~Untouched /\ (Retry(f) \/ Minted(f))
  BY <1>7
<1>9. ~Retry(f)
  BY Names DEF Retry, RetryTarget, SInv, StoreOK, CanBeRestored
<1>10. f = q
  BY <1>2, <1>3, <1>8, <1>9 DEF Minted
<1>11. flow'[q] = Request(q, flow[q], Fresh(Target))
  BY <1>1, <1>3, <1>8, <1>9, <1>10 DEF Minted, Goes
<1>12. QED
  BY <1>1, <1>11 DEF Request, Flow, Fresh

\* A request made as the target never leaves again with the admin's rights (client.ts).
THEOREM ReplayedAsTargetHolds == Spec => ReplayedAsTarget
<1>1. SInv /\ [Next]_vars =>
        [\A q \in Queries :
            flow[q].pc # "http" /\ flow'[q].pc = "http" /\ flow[q].origin = Target /\ imp
                => flow'[q].tok.of = Target]_vars
  BY Replays
<1>2. QED
  BY <1>1, Invariant, PTL DEF Spec, ReplayedAsTarget

-----------------------------------------------------------------------------
(***************************************************************************)
(* Why an impersonation ends.  The stored id is dropped where a refresh    *)
(* brought nothing or a mint was refused; Reasons says what the one and    *)
(* the other mean, from the moment the call went out.                      *)
(***************************************************************************)
\* Only the gate's own refresh, which a load cut off and repeats, carries a spent cookie.
GateAsks(f) == f = "boot" /\ flow[f].pc = "refreshing" /\ ~flow[f].retried

InHand(r) == r.pc \in {"refreshed", "minting"}
AirOK == \A f \in Flows : call[f] = "spent" => GateAsks(f)
EmptyOK == \A f \in Flows :
              flow[f].pc = "refreshed" /\ flow[f].tok = NoOne /\ flow[f].retried => lost
HandOK == \A f \in Flows : InHand(flow[f]) /\ flow[f].tok # NoOne => flow[f].tok.n = epoch
MintOK == \A f \in Flows : flow[f].pc = "minting" => flow[f].tok # NoOne
Reasons == AirOK /\ EmptyOK /\ HandOK /\ MintOK

\* A flow that has nothing in hand, still has it, or takes its token to the mint; and
\* waits for its refresh, if it does.
Quiet(f) ==
    /\ \/ ~InHand(flow'[f])
       \/ /\ flow'[f].pc = flow[f].pc /\ flow'[f].tok = flow[f].tok
          /\ flow'[f].retried = flow[f].retried
       \/ /\ flow[f].pc = "refreshed" /\ flow'[f].pc = "minting"
          /\ flow'[f].tok = flow[f].tok /\ flow[f].tok # NoOne
    /\ flow[f].pc = "refreshing" =>
          flow'[f].pc = "refreshing" /\ flow'[f].retried = flow[f].retried

\* No other cookie is spent.
NoneSpent == \A f \in Flows : call'[f] = "spent" => call[f] = "spent"

LEMMA QuietKeeps ==
    ASSUME Reasons, NoneSpent, \A f \in Flows : Quiet(f), epoch' = epoch,
           Settling => lost' = lost
    PROVE  Reasons'
<1>1. AirOK'
  BY DEF Reasons, NoneSpent, AirOK, GateAsks, Quiet
<1>2. EmptyOK'
  BY DEF Reasons, EmptyOK, Quiet, InHand, Settling
<1>3. HandOK'
  BY DEF Reasons, HandOK, Quiet, InHand
<1>4. MintOK'
  BY DEF Reasons, MintOK, Quiet, InHand
<1>5. QED
  BY <1>1, <1>2, <1>3, <1>4 DEF Reasons

LEMMA InitReasons == Init => Reasons
<1> SUFFICES ASSUME Init PROVE Reasons
  OBVIOUS
<1>1. \A f \in Flows : call[f] = "none" /\ flow[f].pc = "idle"
  BY Names DEF Init
<1>2. QED
  BY <1>1 DEF Reasons, AirOK, EmptyOK, HandOK, MintOK, InHand

LEMMA OneQuiet ==
    ASSUME SInv, NEW f \in Flows, NEW r, Goes(f, r), r.pc \in {"idle", "http", "refreshing"},
           flow[f].pc # "refreshing"
    PROVE  \A g \in Flows : Quiet(g)
<1>1. \A g \in Flows : flow'[g] = IF g = f THEN r ELSE flow[g]
  BY DEF Goes, SInv, FlowsOK
<1>2. QED
  BY <1>1 DEF Quiet, InHand

LEMMA EndIsQuiet ==
    ASSUME SInv, NEW f \in Flows, Ends(f), flow[f].pc # "refreshing"
    PROVE  \A g \in Flows : Quiet(g)
BY Names, OneQuiet DEF Ends

LEMMA RequestIsQuiet ==
    ASSUME SInv, NEW f \in Flows, NEW r \in Flow, NEW t, Goes(f, Request(f, r, t)),
           flow[f].pc # "refreshing"
    PROVE  \A g \in Flows : Quiet(g)
<1>1. PICK s : s = Request(f, r, t)
  OBVIOUS
<1>2. s.pc = "http"
  BY <1>1 DEF Request, Flow
<1>3. QED
  BY <1>1, <1>2, OneQuiet

LEMMA MintIsQuiet ==
    ASSUME SInv, NEW f \in Flows, flow[f].pc = "refreshed", flow[f].tok # NoOne,
           Goes(f, [flow[f] EXCEPT !.pc = "minting"])
    PROVE  \A g \in Flows : Quiet(g)
<1>1. flow[f] \in Flow
  BY DEF SInv, FlowsOK
<1>2. PICK s : s = [flow[f] EXCEPT !.pc = "minting"]
  OBVIOUS
<1>3. s.pc = "minting" /\ s.tok = flow[f].tok
  BY <1>1, <1>2 DEF Flow
<1>4. \A g \in Flows : flow'[g] = IF g = f THEN s ELSE flow[g]
  BY <1>2 DEF Goes, SInv, FlowsOK
<1>5. QED
  BY <1>3, <1>4 DEF Quiet, InHand

\* A refresh that sets out carries the cookie of the moment, or none.
LEMMA AskIsQuiet ==
    ASSUME SInv, NEW f \in Flows, NEW r \in Flow, RefreshAccessToken(f, r),
           flow[f].pc # "refreshing"
    PROVE  NoneSpent /\ \A g \in Flows : Quiet(g)
<1>1. PICK s : s = [r EXCEPT !.pc = "refreshing", !.on = Leader(f)]
  OBVIOUS
<1>2. s.pc = "refreshing" /\ Goes(f, s)
  BY <1>1 DEF RefreshAccessToken, Flow
<1>3. \A g \in Flows : call'[g] = call[g] \/ call'[g] = Carried
  BY DEF RefreshAccessToken, SInv, CallsOK
<1>4. Carried # "spent"
  BY SessionAssumption DEF Carried, SInv, RestOK, Accounts
<1>5. NoneSpent
  BY <1>3, <1>4 DEF NoneSpent
<1>6. QED
  BY <1>2, <1>5, OneQuiet

\* A load that cut a refresh off: the gate asks with what may be spent.
LEMMA LoadReasons == ASSUME SInv, Load PROVE Reasons'
<1>1. \A g \in Flows : flow'[g].pc = IF g = "boot" THEN "refreshing" ELSE "idle"
  BY Names DEF Load, Idle
<1>2. ~flow'["boot"].retried
  BY Names DEF Load, Idle
<1>3. \A g \in Flows : g # "boot" => call'[g] = "none"
  BY DEF Load
<1>4. AirOK'
  BY <1>1, <1>2, <1>3, Names DEF AirOK, GateAsks
<1>5. QED
  BY <1>1, <1>4 DEF Reasons, EmptyOK, HandOK, MintOK, InHand

\* What a refresh brings is new, or nothing: for want of a session or an answer, or to
\* the gate alone.
LEMMA RefreshReasons ==
    ASSUME SInv, Reasons, ~Settling, NEW f \in Flows,
           RefreshHonoured(f) \/ RefreshRefused(f) \/ RefreshLost(f)
    PROVE  Reasons'
<1>1. call[f] # "none"
  BY SessionAssumption DEF RefreshHonoured, RefreshRefused, RefreshLost, Accounts
<1>2. PICK t \in Token \cup {NoOne} :
         /\ Deliver(f, t)
         /\ t = NoOne => lost' = TRUE \/ call[f] = "spent"
         /\ t # NoOne => t.n = epoch
  <2>1. CASE RefreshHonoured(f)
    <3>1. Fresh(call[f]) \in Token
      BY <2>1, FreshType DEF RefreshHonoured, SInv
    <3>2. Fresh(call[f]).n = epoch
      BY DEF Fresh
    <3>3. Fresh(call[f]) # NoOne
      BY <3>1, SessionAssumption DEF Token, Accounts
    <3>4. QED
      BY <2>1, <3>1, <3>2, <3>3 DEF RefreshHonoured
  <2>2. CASE RefreshRefused(f)
    BY <2>2 DEF RefreshRefused
  <2>3. CASE RefreshLost(f)
    BY <2>3 DEF RefreshLost
  <2>4. QED
    BY <2>1, <2>2, <2>3
<1>3. \A g \in Flows : g # f => call[g] = "none"
  BY <1>1, Names DEF SInv, CallsOK, OneCall
<1>4. \A g \in Flows : call'[g] = "none"
  BY <1>3, SessionAssumption
  DEF RefreshHonoured, RefreshRefused, RefreshLost, SInv, CallsOK, Void, Accounts
<1>5. \A g \in Flows :
         \/ flow'[g] = flow[g] /\ ~(flow[g].pc = "refreshing" /\ flow[g].on = f)
         \/ /\ flow[g].pc = "refreshing"
            /\ flow'[g] = [flow[g] EXCEPT !.pc = "refreshed", !.tok = t, !.on = NoOne]
  BY <1>2 DEF Deliver
<1>6. \A g \in Flows : \/ flow'[g] = flow[g] /\ flow[g].pc # "refreshed"
                       \/ /\ flow[g].pc = "refreshing"
                          /\ flow'[g].pc = "refreshed" /\ flow'[g].tok = t
                          /\ flow'[g].retried = flow[g].retried
  <2> SUFFICES ASSUME NEW g \in Flows
               PROVE  \/ flow'[g] = flow[g] /\ flow[g].pc # "refreshed"
                      \/ /\ flow[g].pc = "refreshing"
                         /\ flow'[g].pc = "refreshed" /\ flow'[g].tok = t
                         /\ flow'[g].retried = flow[g].retried
    OBVIOUS
  <2>1. flow[g] \in Flow /\ flow[g].pc # "refreshed"
    BY DEF SInv, FlowsOK, Settling
  <2>2. PICK s : s = [flow[g] EXCEPT !.pc = "refreshed", !.tok = t, !.on = NoOne]
    OBVIOUS
  <2>3. s.pc = "refreshed" /\ s.tok = t /\ s.retried = flow[g].retried
    BY <2>1, <2>2 DEF Flow
  <2>4. QED
    BY <1>5, <2>1, <2>2, <2>3
<1>7. epoch' = epoch
  BY <1>2 DEF Deliver
<1>8. AirOK'
  BY <1>4 DEF AirOK
<1>9. EmptyOK'
  <2>1. CASE call[f] = "spent"
    <3>1. Booting /\ ~flow["boot"].retried
      BY <2>1 DEF Reasons, AirOK, GateAsks, Booting, FirstTry, Awaiting
    <3>2. \A g \in Flows : g # "boot" => flow[g].pc = "idle"
      BY <3>1 DEF SInv, FlowsOK, BootsAlone, IsIdle
    <3>3. QED
      BY <1>6, <3>1, <3>2 DEF EmptyOK
  <2>2. CASE call[f] # "spent"
    BY <1>2, <1>6, <2>2 DEF EmptyOK
  <2>3. QED
    BY <2>1, <2>2
<1>10. HandOK' /\ MintOK'
  BY <1>2, <1>6, <1>7 DEF HandOK, MintOK, InHand, Reasons
<1>11. QED
  BY <1>8, <1>9, <1>10 DEF Reasons

\* The steps that hold up the answers: no call and no cookie changes.
LEMMA ContinueReasons ==
    ASSUME SInv, Reasons, Continuations PROVE Reasons'
<1> DEFINE Calm == UNCHANGED <<server, call>> /\ \A g \in Flows : Quiet(g)
<1>1. ASSUME NEW f \in Flows, Continue(f) PROVE Calm
  <2>1. flow[f].pc = "refreshed" /\ flow[f] \in Flow /\ UNCHANGED <<server, call>>
    BY <1>1 DEF Continue, GiveUp, Retry, Remint, Resumed, SInv, FlowsOK
  <2>2. CASE GiveUp(f)
    BY <2>1, <2>2, EndIsQuiet DEF GiveUp
  <2>3. CASE Retry(f)
    BY <2>1, <2>3, RequestIsQuiet DEF Retry
  <2>4. CASE Remint(f)
    BY <2>1, <2>4, MintIsQuiet DEF Remint
  <2>5. QED
    BY <1>1, <2>2, <2>3, <2>4 DEF Continue
<1>2. ASSUME BootRefreshed PROVE Calm
  <2>1. "boot" \in Flows /\ flow["boot"].pc = "refreshed" /\ flow["boot"] \in Flow
    BY <1>2, Names DEF BootRefreshed, SInv, FlowsOK
  <2>2. UNCHANGED <<server, call>>
    BY <1>2 DEF BootRefreshed, BootAsSelf
  <2>3. CASE flow["boot"].tok = NoOne
    BY <1>2, <2>1, <2>2, <2>3, EndIsQuiet DEF BootRefreshed
  <2>4. CASE flow["boot"].tok # NoOne /\ pending # NoOne
    BY <1>2, <2>1, <2>2, <2>4, MintIsQuiet DEF BootRefreshed
  <2>5. CASE flow["boot"].tok # NoOne /\ pending = NoOne
    <3>1. [flow["boot"] EXCEPT !.kept = flow["boot"].tok] \in Flow
      BY <2>1 DEF Flow
    <3>2. QED
      BY <1>2, <2>1, <2>2, <2>5, <3>1, RequestIsQuiet DEF BootRefreshed, BootAsSelf
  <2>6. QED
    BY <2>3, <2>4, <2>5
<1>3. ASSUME ReturnRefreshed PROVE Calm
  <2>1. /\ "banner" \in Flows /\ flow["banner"] \in Flow
        /\ UNCHANGED <<server, call>>
    BY <1>3, Names DEF ReturnRefreshed, SInv, FlowsOK
  <2>2. CASE flow["banner"].tok = NoOne
    BY <1>3, <2>1, <2>2, EndIsQuiet DEF ReturnRefreshed
  <2>3. CASE flow["banner"].tok # NoOne
    <3>1. [flow["banner"] EXCEPT !.kept = flow["banner"].tok] \in Flow
      BY <2>1 DEF Flow
    <3>2. QED
      BY <1>3, <2>1, <2>3, <3>1, RequestIsQuiet DEF ReturnRefreshed
  <2>4. QED
    BY <2>2, <2>3
<1>4. Calm
  BY <1>1, <1>2, <1>3 DEF Continuations
<1>5. QED
  BY <1>4, QuietKeeps DEF server, NoneSpent

LEMMA FailsAreQuiet ==
    ASSUME SInv, Reasons, NEW f \in Flows, Fails(f), UNCHANGED <<server, call>>,
           flow[f].pc # "refreshing"
    PROVE  Reasons'
<1>1. \A g \in Flows : Quiet(g)
  BY EndIsQuiet DEF Fails
<1>2. QED
  BY <1>1, QuietKeeps DEF server, NoneSpent

\* A sign-out leaves the other calls without a session, none with a spent one.
LEMMA SucceedReasons ==
    ASSUME SInv, Reasons, NEW f \in Flows, Succeed(f) PROVE Reasons'
<1>1. Ends(f) /\ flow[f].pc = "http" /\ UNCHANGED <<epoch, lost>>
  BY DEF Succeed
<1>2. \A g \in Flows : Quiet(g)
  BY <1>1, EndIsQuiet
<1>3. NoneSpent
  BY DEF Succeed, NoneSpent, Void
<1>4. QED
  BY <1>1, <1>2, <1>3, QuietKeeps

LEMMA MintReasons ==
    ASSUME SInv, Reasons, NEW f \in Flows, Minted(f) \/ MintRefused(f) \/ MintFails(f)
    PROVE  Reasons'
<1> DEFINE r == flow[f]
<1>1. r.pc = "minting" /\ r \in Flow /\ UNCHANGED <<epoch, lost>>
  BY DEF Minted, MintRefused, MintFails, Minting, SInv, FlowsOK
<1>2. [r EXCEPT !.kept = r.tok] \in Flow
  BY <1>1 DEF Flow
<1>3. CASE MintRefused(f) /\ r.retried
  BY <1>1, <1>3, LoadReasons DEF MintRefused, RefusalEnds
<1>4. CASE ~(MintRefused(f) /\ r.retried)
  <2>1. UNCHANGED call
    <3>1. CASE Minted(f)
      BY <3>1 DEF Minted
    <3>2. CASE MintRefused(f)
      BY <1>4, <3>2 DEF MintRefused, RefusalEnds
    <3>3. CASE MintFails(f)
      BY <3>3 DEF MintFails, MintLost, BootAsSelf
    <3>4. QED
      BY <3>1, <3>2, <3>3
  <2>2. \A g \in Flows : Quiet(g)
    <3>1. CASE Minted(f)
      BY <1>1, <3>1, RequestIsQuiet, EndIsQuiet DEF Minted
    <3>2. CASE MintRefused(f)
      BY <1>1, <1>2, <1>4, <3>2, RequestIsQuiet DEF MintRefused, RefusalEnds
    <3>3. CASE MintFails(f) /\ r.retried
      BY <1>1, <3>3, EndIsQuiet DEF MintFails, MintLost, Fails
    <3>4. CASE MintFails(f) /\ ~r.retried
      <4>1. f = "boot"
        BY <1>1, <3>4 DEF SInv, FlowsOK, Unretried, MayTry, FirstTry, Awaiting
      <4>2. QED
        BY <1>1, <1>2, <3>4, <4>1, RequestIsQuiet DEF MintFails, MintLost, BootAsSelf
    <3>5. QED
      BY <3>1, <3>2, <3>3, <3>4
  <2>3. QED
    BY <1>1, <2>1, <2>2, QuietKeeps DEF NoneSpent
<1>5. QED
  BY <1>3, <1>4

LEMMA UnauthorizedReasons ==
    ASSUME SInv, Reasons, NEW f \in Flows, Unauthorized(f) PROVE Reasons'
<1>1. UNCHANGED server /\ flow[f].pc = "http"
  BY DEF Unauthorized
<1>2. CASE flow[f].retried
  BY <1>1, <1>2, FailsAreQuiet DEF Unauthorized
<1>3. CASE ~flow[f].retried
  <2>1. [flow[f] EXCEPT !.retried = TRUE] \in Flow
    BY DEF SInv, FlowsOK, Flow
  <2>2. NoneSpent /\ \A g \in Flows : Quiet(g)
    BY <1>1, <1>3, <2>1, AskIsQuiet DEF Unauthorized
  <2>3. QED
    BY <1>1, <2>2, QuietKeeps DEF server
<1>4. QED
  BY <1>2, <1>3

LEMMA LoginReasons ==
    ASSUME SInv, Reasons, NEW a \in Accounts, Login(a) PROVE Reasons'
<1>1. UNCHANGED <<call, epoch, lost>>
  BY DEF Login
<1>2. \A g \in Flows : /\ flow'[g].pc = flow[g].pc /\ flow'[g].tok = flow[g].tok
                       /\ flow'[g].retried = flow[g].retried
  <2> SUFFICES ASSUME NEW g \in Flows
               PROVE  /\ flow'[g].pc = flow[g].pc /\ flow'[g].tok = flow[g].tok
                      /\ flow'[g].retried = flow[g].retried
    OBVIOUS
  <2>1. PICK s : s = [flow["boot"] EXCEPT !.kept = NoOne]
    OBVIOUS
  <2>2. s.pc = flow["boot"].pc /\ s.tok = flow["boot"].tok /\ s.retried = flow["boot"].retried
    BY <2>1, Names DEF SInv, FlowsOK, Flow
  <2>3. flow'[g] = IF g = "boot" THEN s ELSE flow[g]
    BY <2>1 DEF Login, SInv, FlowsOK
  <2>4. QED
    BY <2>2, <2>3
<1>3. QED
  BY <1>1, <1>2, QuietKeeps DEF Quiet, NoneSpent

LEMMA NextReasons == ASSUME SInv, Reasons, [Next]_vars PROVE Reasons'
<1>1. CASE UNCHANGED vars \/ Forbid
  <2>1. UNCHANGED <<flow, call, epoch, lost>>
    BY <1>1 DEF vars, server, Forbid
  <2>2. QED
    BY <2>1, QuietKeeps DEF Quiet, NoneSpent
<1>2. CASE ~Settling /\ Expire
  <2>1. \A f \in Flows : ~InHand(flow[f])
    BY <1>2 DEF Expire, Settling, InHand
  <2>2. UNCHANGED <<flow, call, lost>>
    BY <1>2 DEF Expire
  <2>3. QED
    BY <2>1, <2>2 DEF Reasons, AirOK, GateAsks, EmptyOK, HandOK, MintOK, InHand
<1>3. CASE Continuations
  BY <1>3, ContinueReasons
<1>4. CASE ~Settling /\ \E f \in Flows : Answer(f)
  <2> SUFFICES ASSUME NEW f \in Flows, Answer(f), ~Settling PROVE Reasons'
    BY <1>4
  <2>1. CASE Fail(f)
    BY <2>1, FailsAreQuiet DEF Fail
  <2>2. QED
    BY <2>1, SucceedReasons, UnauthorizedReasons, RefreshReasons, MintReasons DEF Answer
<1>5. CASE (\E q \in Queries : Query(q)) \/ Logout \/ LoginAs
  <2>1. PICK f \in Flows, o \in Accounts \cup {NoOne} : Asks(f, o)
    BY <1>5, Asked
  <2>2. PICK s : s = [Request(f, Idle, token) EXCEPT !.origin = o]
    OBVIOUS
  <2>3. s.pc = "http"
    BY <2>2 DEF Request, Idle
  <2>4. \A g \in Flows : Quiet(g)
    BY <2>1, <2>2, <2>3, OneQuiet DEF Asks, IsIdle
  <2>5. QED
    BY <2>1, <2>4, QuietKeeps DEF Asks, server, NoneSpent
<1>6. CASE Return
  <2>1. flow["banner"].pc = "idle"
    BY <1>6 DEF Return, Commanded, Waiting, IsIdle
  <2>2. NoneSpent /\ \A g \in Flows : Quiet(g)
    BY <1>6, <2>1, Names, AskIsQuiet DEF Return
  <2>3. QED
    BY <1>6, <2>2, QuietKeeps DEF Return, server
<1>7. CASE (\E a \in Accounts : Login(a)) \/ Reload
  BY <1>7, LoginReasons, LoadReasons DEF Reload
<1>8. QED
  BY <1>1, <1>2, <1>3, <1>4, <1>5, <1>6, <1>7 DEF Next

-----------------------------------------------------------------------------
\* The id is dropped by a command, by a refresh that brought nothing or by a refusal.
LEMMA Ended ==
    ASSUME SInv, Reasons, [Next]_vars, pending # NoOne, pending' = NoOne
    PROVE  ~asked' \/ Refusable \/ lost
<1>1. CASE UNCHANGED vars
  BY <1>1 DEF vars, store
<1>2. ASSUME NEW f \in Flows, Continue(f) PROVE lost
  <2>1. GiveUp(f)
    BY <1>2 DEF Continue, Retry, KeepImpersonation, Remint, store
  <2>2. QED
    BY <2>1 DEF GiveUp, Resumed, Reasons, EmptyOK
<1>3. CASE BootRefreshed
  BY <1>3 DEF BootRefreshed, store
<1>4. CASE ReturnRefreshed
  BY <1>4 DEF ReturnRefreshed, KeepImpersonation
<1>5. ASSUME NEW f \in Flows, Answer(f) PROVE ~asked' \/ Refusable
  <2>1. CASE Fail(f) \/ Unauthorized(f)
    BY <2>1 DEF Fail, Unauthorized, Fails, LogoutEnds, NothingChanges, store
  <2>2. CASE Succeed(f)
    <3>1. \/ LogoutEnds \/ LoginAsSucceeds \/ BootSucceeds(flow[f]) \/ ReturnSucceeds(flow[f])
          \/ NothingChanges
      BY <2>2 DEF Succeed
    <3>2. QED
      BY <3>1, Names DEF LogoutEnds, LoginAsSucceeds, StartImpersonation, BootSucceeds,
                         KeepImpersonation, ReturnSucceeds, NothingChanges, store
  <2>3. CASE RefreshHonoured(f) \/ RefreshRefused(f) \/ RefreshLost(f)
    BY <2>3 DEF RefreshHonoured, RefreshRefused, RefreshLost, Deliver, store
  <2>4. CASE Minted(f)
    BY <2>4, Names DEF Minted, StartImpersonation
  <2>5. CASE MintFails(f)
    BY <2>5 DEF MintFails, MintLost, Fails, LogoutEnds, NothingChanges, store
  <2>6. CASE MintRefused(f)
    <3>1. flow[f].pc = "minting" /\ ~MayMint(flow[f].tok)
      BY <2>6 DEF MintRefused, Minting
    <3>2. Live(flow[f].tok)
      BY <3>1 DEF Reasons, HandOK, MintOK, InHand, Live
    <3>3. QED
      BY <3>1, <3>2 DEF MayMint, Refusable
  <2>7. QED
    BY <1>5, <2>1, <2>2, <2>3, <2>4, <2>5, <2>6 DEF Answer
<1>6. CASE (\E q \in Queries : Query(q)) \/ Logout \/ LoginAs \/ Return
  BY <1>6 DEF Query, Logout, LoginAs, Return, Asks, store
<1>7. CASE (\E a \in Accounts : Login(a)) \/ Reload \/ Expire \/ Forbid
  BY <1>7 DEF Login, KeepImpersonation, Reload, Expire, Forbid, store
<1>8. QED
  BY <1>1, <1>2, <1>3, <1>4, <1>5, <1>6, <1>7 DEF Next, Continuations

\* An impersonation ends by a command, a refusal of the mint or a refresh without session
\* or answer, never by an expired token, a spent cookie or an unanswered mint (client.ts,
\* auth-gate.tsx).
THEOREM EndsForAReasonHolds == Spec => EndsForAReason
<1>1. SInv /\ Reasons /\ [Next]_vars => (SInv /\ Reasons)'
  BY NextSInv, NextReasons
<1>2. SInv /\ Reasons /\ [Next]_vars =>
        [pending # NoOne /\ pending' = NoOne => ~asked' \/ Refusable \/ lost]_vars
  BY Ended
<1>3. QED
  BY <1>1, <1>2, InitSInv, InitReasons, PTL DEF Spec, EndsForAReason
=============================================================================
