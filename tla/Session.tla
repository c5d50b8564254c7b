------------------------------- MODULE Session -------------------------------
(***************************************************************************)
(* Who a browser tab is signed in as: the auth store, the axios client     *)
(* with its refresh on 401, the gate that boots a dashboard page, and the  *)
(* super admin's "log in as".                                              *)
(*                                                                         *)
(* Every asynchronous function of the tab is a flow: a query of a page, a  *)
(* sign-out, a "log in as", the boot of AuthGate, the way back of the      *)
(* impersonation banner.  A flow advances when the call it awaits is       *)
(* answered, and the answers come in any order.  Access tokens carry the   *)
(* epoch they were minted in; Expire starts the next one.  A refresh token *)
(* works once: when the server has honoured one of the refresh calls in    *)
(* the air, the others carry a spent cookie.                               *)
(***************************************************************************)
EXTENDS Naturals

CONSTANTS
    Admin, Target,  \* a super admin, and the account he acts as
    NoOne,
    Queries,        \* requests of pages that may overlap
    MaxEpoch,       \* how often access tokens expire
    MaxHaste,       \* how often he does not wait: loads the page again, or gives a command
                    \* while another is running
    RefreshMayFail  \* whether the call to /api/auth/refresh itself may be lost

ASSUME SessionAssumption ==
    /\ Admin # Target /\ NoOne \notin {Admin, Target}
    /\ NoOne \notin [of : {Admin, Target}, n : 0 .. MaxEpoch]
    /\ {Admin, Target, NoOne} \cap {"none", "spent", "bare"} = {}
    /\ {"boot", "banner", "logout", "loginas"} \cap Queries = {}
    /\ NoOne \notin Queries \cup {"boot", "banner", "logout", "loginas"}
    /\ MaxEpoch \in Nat /\ MaxHaste \in Nat /\ RefreshMayFail \in BOOLEAN

VARIABLES
    token,    \* useAuthStore: accessToken
    user,     \* useAuthStore: user
    imp,      \* useAuthStore: impersonating
    pending,  \* sessionStorage: the id of the account to act as
    cookie,   \* the account the HttpOnly refresh cookie is still good for
    flow,     \* the asynchronous functions that are running
    promise,  \* refreshPromise: the flow whose refresh everyone shares
    call,     \* the refresh calls in the air
    page,     \* "gated" behind AuthGate, or "login"
    epoch, haste,
    mintable, \* the server still lets Admin act as Target
    asked,    \* the admin wants to act as Target (for the properties)
    lost      \* the last refresh to end had no session or no answer (for the properties)

store == <<token, user, imp, pending>>
server == <<cookie, epoch, mintable, lost>>
vars == <<store, server, flow, promise, call, page, haste, asked>>

Accounts == {Admin, Target}
Flows == Queries \cup {"boot", "banner", "logout", "loginas"}
Token == [of : Accounts, n : 0 .. MaxEpoch]

Idle == [pc |-> "idle", on |-> NoOne, tok |-> NoOne, kept |-> NoOne,
         origin |-> NoOne, retried |-> FALSE]
IsIdle(f) == flow[f].pc = "idle"
Live(t) == t # NoOne /\ t.n = epoch
Fresh(a) == [of |-> a, n |-> epoch]

\* Continuations of a settled promise run before any other event of the tab.
Settling == \E f \in Flows : flow[f].pc = "refreshed"

Init ==
    /\ token = NoOne /\ user = NoOne /\ imp = FALSE /\ pending = NoOne
    /\ cookie = Admin
    /\ flow = [f \in Flows |-> Idle]
    /\ promise = NoOne
    /\ call = [f \in Flows |-> "none"]
    /\ page = "login"
    /\ epoch = 0 /\ haste = 0
    /\ mintable = TRUE /\ asked = FALSE /\ lost = FALSE

-----------------------------------------------------------------------------
(***************************************************************************)
(* The store, and the calls every flow is made of.                         *)
(***************************************************************************)
SetAuth(t, a) == token' = t /\ user' = a
SetAccessToken(t) == token' = t /\ UNCHANGED user
StartImpersonation_Unsaved(t, a) == SetAuth(t, a) /\ imp' = TRUE /\ UNCHANGED pending
StartImpersonation(t, a) == SetAuth(t, a) /\ imp' = TRUE /\ pending' = a
StopImpersonation == imp' = FALSE /\ pending' = NoOne
ClearAuth == SetAuth(NoOne, NoOne) /\ StopImpersonation
KeepImpersonation == UNCHANGED <<imp, pending>>

Goes(f, r) == flow' = [flow EXCEPT ![f] = r]
Ends(f) == Goes(f, Idle)

\* apiClient: the request carries the token the store holds when it leaves.
Request(f, r, t) == [r EXCEPT !.pc = "http", !.tok = t]

\* refreshAccessToken(): callers share the refresh already in the air.
Leader_Own(f) == f
Leader(f) == IF promise = NoOne THEN f ELSE promise

\* A call carries the session of the cookie, or comes without one.
Carried_Always == cookie
Carried == IF cookie = NoOne THEN "bare" ELSE cookie

RefreshAccessToken(f, r) ==
    LET l == Leader(f) IN
    /\ Goes(f, [r EXCEPT !.pc = "refreshing", !.on = l])
    /\ promise' = l
    /\ call' = IF l = f THEN [call EXCEPT ![f] = Carried] ELSE call

\* The other calls that carry a session when it is rotated ("spent") or revoked ("bare").
Void(calls, a, why) == [g \in Flows |-> IF calls[g] = a THEN why ELSE calls[g]]

\* refreshAccessToken().finally: the next 401 asks anew.
Settled_Kept(f) == promise
Settled(f) == IF promise = f THEN NoOne ELSE promise

\* requestRefresh() answered; everyone who awaits it goes on with the token or null.
Deliver(f, t) ==
    /\ flow' = [g \in Flows |->
                  IF flow[g].pc = "refreshing" /\ flow[g].on = f
                  THEN [flow[g] EXCEPT !.pc = "refreshed", !.tok = t, !.on = NoOne]
                  ELSE flow[g]]
    /\ promise' = Settled(f)
    /\ UNCHANGED <<store, epoch, mintable, page, haste, asked>>

RefreshHonoured(f) ==
    /\ call[f] \in Accounts
    /\ Deliver(f, Fresh(call[f]))
    /\ cookie' = call[f] /\ lost' = FALSE
    /\ call' = Void([call EXCEPT ![f] = "none"], call[f], "spent")

\* AuthController::refresh forgets the cookie when it refuses; the route in between does
\* not pass that on, so a cookie set meanwhile stays.
RefreshRefused(f) ==
    /\ call[f] \in {"spent", "bare"}
    /\ Deliver(f, NoOne)
    /\ call' = [call EXCEPT ![f] = "none"]
    /\ lost' = (call[f] = "bare")
    /\ UNCHANGED cookie

\* A lost call or a lost answer, the latter with the rotated cookie in it.
RefreshLost(f) ==
    /\ RefreshMayFail
    /\ call[f] # "none"
    /\ Deliver(f, NoOne)
    /\ call' = [call EXCEPT ![f] = "none"]
    /\ cookie' = cookie \/ (call[f] = cookie /\ cookie' = NoOne)
    /\ lost' = TRUE

-----------------------------------------------------------------------------
(***************************************************************************)
(* What a flow does when its call has succeeded or failed.                 *)
(***************************************************************************)
\* useLogout: whatever the API said, the store is emptied.
LogoutEnds == ClearAuth /\ page' = "login" /\ asked' = FALSE

\* The users page: the store is pointed at the other account.
LoginAsSucceeds ==
    /\ StartImpersonation(Fresh(Target), Target)
    /\ asked' = TRUE
    /\ UNCHANGED page

NothingChanges == UNCHANGED <<store, page, asked>>

\* AuthGate: the profile completes the token it already put into the store, unless the
\* gate that asked for it is gone.
BootSucceeds(r) ==
    IF page = "gated" /\ r.kept # NoOne
    THEN SetAuth(r.kept, r.tok.of) /\ KeepImpersonation /\ UNCHANGED <<page, asked>>
    ELSE NothingChanges

\* ImpersonationBanner::handleReturn, after me().
ReturnSucceeds(r) ==
    /\ SetAuth(r.kept, r.tok.of)
    /\ StopImpersonation
    /\ asked' = FALSE
    /\ UNCHANGED page

\* Only a super admin's own token may mint one for another account.
MayMint(t) == Live(t) /\ t.of = Admin /\ mintable

Succeed(f) ==
    LET r == flow[f] IN
    /\ r.pc = "http" /\ Live(r.tok)
    /\ CASE f = "logout"  -> LogoutEnds
         [] f = "loginas" -> MayMint(r.tok) /\ LoginAsSucceeds
         [] f = "boot"    -> BootSucceeds(r)
         [] f = "banner"  -> ReturnSucceeds(r)
         [] OTHER         -> NothingChanges
    /\ IF f = "logout" THEN cookie' = NoOne /\ call' = Void(call, cookie, "bare")
                       ELSE UNCHANGED <<cookie, call>>
    /\ Ends(f)
    /\ UNCHANGED <<epoch, mintable, lost, promise, haste>>

\* A refusal, a 5xx or a lost call: the promise rejects.
Fails(f) ==
    /\ IF f = "logout" THEN LogoutEnds ELSE NothingChanges
    /\ Ends(f)

Fail(f) ==
    /\ flow[f].pc = "http"
    /\ Fails(f)
    /\ UNCHANGED <<server, promise, call, haste>>

\* The response interceptor: a first 401 awaits a refresh, a second one rejects.
Unauthorized(f) ==
    /\ flow[f].pc = "http" /\ ~Live(flow[f].tok)
    /\ IF flow[f].retried
       THEN Fails(f) /\ UNCHANGED <<promise, call>>
       ELSE /\ RefreshAccessToken(f, [flow[f] EXCEPT !.retried = TRUE])
            /\ UNCHANGED <<store, page, asked>>
    /\ UNCHANGED <<server, haste>>

\* The interceptor with a fresh token in hand.
Resumed(f) ==
    /\ flow[f].pc = "refreshed" /\ flow[f].retried
    /\ UNCHANGED <<server, promise, call, haste>>

RetryTarget_Ignored == NoOne
RetryTarget == pending

\* No token: the store is emptied and the error goes to the caller.
GiveUp(f) ==
    /\ Resumed(f) /\ flow[f].tok = NoOne
    /\ ClearAuth
    /\ Ends(f)
    /\ IF f = "logout" THEN page' = "login" /\ asked' = FALSE
                       ELSE UNCHANGED <<page, asked>>

Retry(f) ==
    /\ Resumed(f) /\ flow[f].tok # NoOne /\ RetryTarget = NoOne
    /\ SetAccessToken(flow[f].tok) /\ KeepImpersonation
    /\ Goes(f, Request(f, flow[f], flow[f].tok))
    /\ UNCHANGED <<page, asked>>

Remint(f) ==
    /\ Resumed(f) /\ flow[f].tok # NoOne /\ RetryTarget # NoOne
    /\ Goes(f, [flow[f] EXCEPT !.pc = "minting"])
    /\ UNCHANGED <<store, page, asked>>

-----------------------------------------------------------------------------
(***************************************************************************)
(* Loading a page, and minting an impersonation token from the cookie's.   *)
(***************************************************************************)
\* A load empties the memory of the tab and boots AuthGate.  A refresh it cuts off may
\* have reached the server, and the cookie it rotated is lost with the answer.
Load ==
    /\ SetAuth(NoOne, NoOne) /\ imp' = FALSE
    /\ flow' = [f \in Flows |-> IF f = "boot"
                               THEN [Idle EXCEPT !.pc = "refreshing", !.on = "boot"]
                               ELSE Idle]
    /\ promise' = "boot"
    /\ \E c \in {Carried} \cup {"spent" : f \in {g \in Flows : call[g] \in Accounts}} :
          /\ call' = [f \in Flows |-> IF f = "boot" THEN c ELSE "none"]
          /\ cookie' = IF c = "spent" THEN NoOne ELSE cookie
    /\ page' = "gated"

Hastens == haste < MaxHaste /\ haste' = haste + 1

Reload ==
    /\ Hastens
    /\ Load
    /\ UNCHANGED <<epoch, mintable, lost, pending, asked>>

Minting(f) ==
    /\ flow[f].pc = "minting"
    /\ UNCHANGED <<epoch, mintable, lost, haste>>

\* AuthGate without an account to act as: the token, then the profile.
BootAsSelf(t) ==
    /\ SetAccessToken(t) /\ UNCHANGED imp
    /\ Goes("boot", Request("boot", [flow["boot"] EXCEPT !.kept = t], t))
    /\ UNCHANGED <<promise, call, page, asked>>

Minted(f) ==
    LET t == Fresh(Target) IN
    /\ Minting(f) /\ MayMint(flow[f].tok)
    /\ StartImpersonation(t, Target)
    /\ IF flow[f].retried THEN Goes(f, Request(f, flow[f], t)) ELSE Ends(f)
    /\ UNCHANGED <<cookie, promise, call, page, asked>>

\* A 4xx: back to the admin's own session, in the interceptor by a page load.
RefusalEnds(f) ==
    /\ pending' = NoOne
    /\ UNCHANGED asked
    /\ IF flow[f].retried THEN Load
       ELSE /\ SetAccessToken(flow[f].tok) /\ UNCHANGED imp
            /\ Goes(f, Request(f, [flow[f] EXCEPT !.kept = flow[f].tok], flow[f].tok))
            /\ UNCHANGED <<cookie, promise, call, page>>

MintRefused(f) ==
    /\ Minting(f) /\ ~MayMint(flow[f].tok)
    /\ RefusalEnds(f)

\* A 5xx or no answer: the id stays, for the next request or the next load.
MintLost_Refused(f) == RefusalEnds(f)
MintLost(f) ==
    /\ UNCHANGED cookie
    /\ IF flow[f].retried
       THEN Fails(f) /\ UNCHANGED <<promise, call>>
       ELSE BootAsSelf(flow[f].tok) /\ UNCHANGED pending

MintFails(f) == Minting(f) /\ MintLost(f)

-----------------------------------------------------------------------------
(***************************************************************************)
(* AuthGate and the banner, once their refresh is there.                   *)
(***************************************************************************)
BootRefreshed ==
    LET r == flow["boot"] IN
    /\ r.pc = "refreshed" /\ ~r.retried
    /\ IF r.tok = NoOne
       THEN /\ page' = "login" /\ Ends("boot")
            /\ UNCHANGED <<store, promise, call, asked>>
       ELSE IF pending # NoOne
       THEN /\ Goes("boot", [r EXCEPT !.pc = "minting"])
            /\ UNCHANGED <<store, promise, call, page, asked>>
       ELSE BootAsSelf(r.tok) /\ UNCHANGED pending
    /\ UNCHANGED <<server, haste>>

ReturnRefreshed ==
    LET r == flow["banner"] IN
    /\ r.pc = "refreshed" /\ ~r.retried
    /\ IF r.tok = NoOne
       THEN ClearAuth /\ page' = "login" /\ Ends("banner") /\ asked' = FALSE
       ELSE /\ SetAccessToken(r.tok) /\ KeepImpersonation
            /\ Goes("banner", Request("banner", [r EXCEPT !.kept = r.tok], r.tok))
            /\ UNCHANGED <<page, asked>>
    /\ UNCHANGED <<server, promise, call, haste>>

-----------------------------------------------------------------------------
(***************************************************************************)
(* What the person at the tab starts, and what happens around it.          *)
(***************************************************************************)
\* The shell is rendered, buttons and queries with it, once there is a token.
Shell == page = "gated" /\ token # NoOne

\* A request of a page, or of a button, with the token of the moment.
Asks(f, origin) ==
    /\ IsIdle(f)
    /\ Goes(f, [Request(f, Idle, token) EXCEPT !.origin = origin])
    /\ UNCHANGED <<store, server, promise, call, page, asked>>

\* The button of a running command is disabled, and no other button is: an answer may
\* find that the person has signed out, come back or acted as someone else meanwhile.
Commands == {"logout", "loginas", "banner"}
Waiting(f) == ~IsIdle(f)
Commanded(f) ==
    /\ Shell /\ ~Waiting(f)
    /\ IF \E g \in Commands : Waiting(g) THEN Hastens ELSE UNCHANGED haste

Query(q) == Shell /\ Asks(q, token.of) /\ UNCHANGED haste
Logout == Commanded("logout") /\ Asks("logout", NoOne)
LoginAs == Commanded("loginas") /\ user = Admin /\ ~imp /\ Asks("loginas", NoOne)

Return ==
    /\ Commanded("banner") /\ imp
    /\ RefreshAccessToken("banner", Idle)
    /\ UNCHANGED <<store, server, page, asked>>

\* The login page: setAuth, which leaves the impersonation fields alone.  The gate behind
\* it is a new one, and finds the token there.
Login(a) ==
    /\ page = "login"
    /\ SetAuth(Fresh(a), a) /\ KeepImpersonation
    /\ cookie' = a
    /\ page' = "gated"
    /\ flow' = [flow EXCEPT !["boot"].kept = NoOne]
    /\ asked' = FALSE
    /\ UNCHANGED <<promise, call, epoch, mintable, lost, haste>>

\* Every token handed out so far runs out (JWT_TTL), none of them between the refresh
\* that brought it and the mint that follows.
Expire ==
    /\ epoch < MaxEpoch
    /\ \A f \in Flows : flow[f].pc # "minting"
    /\ epoch' = epoch + 1
    /\ UNCHANGED <<store, cookie, mintable, lost, flow, promise, call, page, haste, asked>>

\* The target is deleted or promoted, or the admin is no longer one.
Forbid ==
    /\ mintable
    /\ mintable' = FALSE
    /\ UNCHANGED <<store, cookie, epoch, lost, flow, promise, call, page, haste, asked>>

Continue(f) == GiveUp(f) \/ Retry(f) \/ Remint(f)
Continuations ==
    \/ \E f \in Flows : Continue(f)
    \/ BootRefreshed
    \/ ReturnRefreshed
Answer(f) ==
    \/ Succeed(f) \/ Fail(f) \/ Unauthorized(f)
    \/ RefreshHonoured(f) \/ RefreshRefused(f) \/ RefreshLost(f)
    \/ Minted(f) \/ MintRefused(f) \/ MintFails(f)

Next ==
    \/ Continuations
    \/ /\ ~Settling
       /\ \/ \E f \in Flows : Answer(f)
          \/ \E q \in Queries : Query(q)
          \/ Logout
          \/ LoginAs
          \/ Return
          \/ \E a \in Accounts : Login(a)
          \/ Reload
          \/ Expire
          \/ Forbid

Spec == Init /\ [][Next]_vars

\* The browser answers or gives up on every call, and runs its continuations, which hold
\* up the answers for a moment only: hence SF.
Fairness ==
    /\ WF_vars(Continuations)
    /\ \A f \in Flows : SF_vars(~Settling /\ Answer(f))

FairSpec == Spec /\ Fairness

-----------------------------------------------------------------------------
Call == {"none", "spent", "bare"} \cup Accounts
Flow == [pc : {"idle", "http", "refreshing", "refreshed", "minting"},
         on : Flows \cup {NoOne}, tok : Token \cup {NoOne}, kept : Token \cup {NoOne},
         origin : Accounts \cup {NoOne}, retried : BOOLEAN]

\* Type correctness of the tab.
TypeOK ==
    /\ token \in Token \cup {NoOne} /\ user \in Accounts \cup {NoOne}
    /\ imp \in BOOLEAN /\ pending \in {Target, NoOne}
    /\ cookie \in Accounts \cup {NoOne}
    /\ flow \in [Flows -> Flow]
    /\ promise \in Flows \cup {NoOne}
    /\ call \in [Flows -> Call]
    /\ page \in {"gated", "login"}
    /\ epoch \in 0 .. MaxEpoch /\ haste \in 0 .. MaxHaste
    /\ mintable \in BOOLEAN /\ asked \in BOOLEAN /\ lost \in BOOLEAN

\* Whoever acts as someone else can be brought back there by a load: every way into and
\* out of it moves the stored id along, however the flows overlap (auth-store.ts).
CanBeRestored == imp => pending = Target

\* Refresh tokens work once, so callers share one call: within a page load a session is
\* never refused because the tab itself had already used its cookie (client.ts).
NotLockedOut == \A f \in Flows : call[f] = "spent" => f = "boot"

\* What was asked while acting as the target is not replayed with the admin's rights
\* after a 401, as long as he acts as the target (client.ts, the interceptor).
ReplayedAsTarget ==
    [][\A q \in Queries :
          flow[q].pc # "http" /\ flow'[q].pc = "http" /\ flow[q].origin = Target /\ imp
              => flow'[q].tok.of = Target]_vars

\* Only the admin, a refusal of the server or a refresh without session or answer ends an
\* impersonation; an expired token, a spent cookie and an unanswered mint do not
\* (client.ts, the comment on mintError).
Refusable == ~mintable \/ \E f \in Flows : flow[f].pc = "minting" /\ flow[f].tok.of # Admin
EndsForAReason ==
    [][pending # NoOne /\ pending' = NoOne => ~asked' \/ Refusable \/ lost]_vars

\* Nothing in the tab waits for ever: each flow hears of its own refresh or of the one it
\* joined, whoever led that and whatever became of him, and asks for one only once.
Settles == \A f \in Flows : ~IsIdle(f) ~> IsIdle(f)

\* "If the session can't be refreshed, we redirect to /login" (auth-gate.tsx:23).
DeadSessionReachesLogin == (page = "gated" /\ token = NoOne) ~> (page = "login" \/ token # NoOne)
=============================================================================
