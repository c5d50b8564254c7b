------------------------------- MODULE MatchDay -------------------------------
(***************************************************************************)
(* One knockout tie on the day it is played: the score cards of the        *)
(* organizer and of the match crew, the sign-off, the clock, the slot of   *)
(* the next tie its winner goes to, and the scoreboard left on at the      *)
(* venue.                                                                  *)
(*                                                                         *)
(* A card offers buttons by the match as the page last fetched it, so a    *)
(* click may come from a page that is as old as you like.  A handler loads *)
(* the match, takes the old winner out of the next tie, saves the columns  *)
(* that differ from its copy and sends the new winner on; nothing locks    *)
(* the row, there is no transaction, and a worker may die in between.      *)
(***************************************************************************)
EXTENDS Naturals

CONSTANTS
    Home, Away,  \* the two sides; a winning score is named by its winner
    Level,       \* a score that nobody leads
    NoScore,     \* no complete scoreline
    Nobody,      \* no team
    Doors,       \* who has a card open
    Handlers     \* requests that may overlap

ASSUME MatchAssumption ==
    /\ Home # Away /\ {Home, Away} \cap {Level, NoScore, Nobody} = {}
    /\ Level # NoScore
    /\ Doors \subseteq {"admin", "operator", "crew"}

VARIABLES
    match,  \* the row of the tie
    next,   \* the slot of the next tie, and whose score that tie has
    page,   \* the match as each door last fetched it
    board,  \* the match as the scoreboard last fetched it
    job,    \* what each request has still to write
    cut     \* a request died between its commits, no winner sent since (for the properties)

vars == <<match, next, page, board, job, cut>>

Teams == {Home, Away}
Scores == Teams \cup {Level, NoScore}
\* The organizer's admin and operator have one kind of page; the match crew has another.
Organizers == Doors \ {"crew"}
Over == {"finished", "cancelled"}

\* What the buttons of a card go by: the sign-off is the admin's alone, and a match that
\* is over shows no clock.
Shown(d, m) == [status |-> m.status, confirmed |-> d = "admin" /\ m.confirmed,
                clock |-> IF m.status \in Over THEN "hidden" ELSE m.clock]
OnBoard(m) == [status |-> m.status, clock |-> m.clock]

\* A request: its next commit, the row it wants, the columns it will write, whether it
\* sends the winner on afterwards, and whether it has taken the old one out.
Columns == {"status", "score", "confirmed", "clock"}
Idle(m) == [do |-> "idle", row |-> m, dirty |-> {}, sends |-> FALSE, out |-> FALSE]
Free(h) == job[h].do = "idle"

Init ==
    /\ match = [status |-> "scheduled", score |-> NoScore, confirmed |-> FALSE,
                clock |-> "unstarted"]
    /\ next = [seat |-> Nobody, played |-> Nobody]
    /\ page = [d \in Doors |-> Shown(d, match)]
    /\ board = OnBoard(match)
    /\ job = [h \in Handlers |-> Idle(match)]
    /\ cut = FALSE

-----------------------------------------------------------------------------
(***************************************************************************)
(* The row and the bracket.                                                *)
(***************************************************************************)
\* GameMatch: a save that takes the match out of play folds the running clock.  Eloquent
\* tells what differs by the copy that was loaded.
Saving_Unhooked(seen, m) == m
Saving(seen, m) ==
    IF m.status # seen.status /\ m.status # "ongoing" /\ m.clock = "running"
    THEN [m EXCEPT !.clock = "paused"]
    ELSE m

Differing(seen, m) ==
    {c \in Columns : \/ c = "status" /\ m.status # seen.status
                     \/ c = "score" /\ m.score # seen.score
                     \/ c = "confirmed" /\ m.confirmed # seen.confirmed
                     \/ c = "clock" /\ m.clock # seen.clock}

Merged(m, row, dirty) ==
    [status |-> IF "status" \in dirty THEN row.status ELSE m.status,
     score |-> IF "score" \in dirty THEN row.score ELSE m.score,
     confirmed |-> IF "confirmed" \in dirty THEN row.confirmed ELSE m.confirmed,
     clock |-> IF "clock" \in dirty THEN row.clock ELSE m.clock]

\* clearDownstream: the score of the next tie goes with the team.
Withdraw_Team(n) == [n EXCEPT !.seat = Nobody]
Withdraw(n) == IF n.seat = Nobody THEN n ELSE [seat |-> Nobody, played |-> Nobody]

WinnerOf(score) == IF score \in Teams THEN score ELSE Nobody

\* advanceWinner: the slot alone is written.
Propagate(n, score) ==
    IF WinnerOf(score) = Nobody THEN n ELSE [n EXCEPT !.seat = WinnerOf(score)]

-----------------------------------------------------------------------------
(***************************************************************************)
(* The commits of a request.                                               *)
(***************************************************************************)
Goes(h, to) == job' = [job EXCEPT ![h] = to]
Ends(h) == Goes(h, Idle(match'))

\* A handler has loaded the match and tested it; a result that was final is withdrawn first.
Starts(h, withdraws, row, dirty, sends) ==
    /\ Free(h)
    /\ Goes(h, [do |-> IF withdraws THEN "withdraw" ELSE "save", row |-> row,
                dirty |-> dirty, sends |-> sends, out |-> FALSE])
    /\ UNCHANGED <<match, next, page, board, cut>>

TakeOut(h) ==
    /\ job[h].do = "withdraw"
    /\ next' = Withdraw(next)
    /\ Goes(h, [job[h] EXCEPT !.do = "save", !.out = TRUE])
    /\ UNCHANGED <<match, page, board, cut>>

SaveRow(h) ==
    /\ job[h].do = "save"
    /\ match' = Merged(match, job[h].row, job[h].dirty)
    /\ IF job[h].sends THEN Goes(h, [job[h] EXCEPT !.do = "send"]) ELSE Ends(h)
    /\ UNCHANGED <<next, page, board, cut>>

\* propagate() reads the match afresh.
SendOn(h) ==
    /\ job[h].do = "send"
    /\ next' = Propagate(next, match.score)
    /\ cut' = FALSE
    /\ UNCHANGED <<match, page, board>>
    /\ Ends(h)

\* The worker is gone, and nobody calls again by himself.
Dies(h) ==
    /\ ~Free(h)
    /\ cut' = (cut \/ job[h].do = "send" \/ job[h].out)
    /\ UNCHANGED <<match, next, page, board>>
    /\ Ends(h)

Finish(h) == TakeOut(h) \/ SaveRow(h) \/ SendOn(h) \/ Dies(h)

-----------------------------------------------------------------------------
(***************************************************************************)
(* Scores.  A finished tie needs a winner, on penalties if it is level.    *)
(***************************************************************************)
\* What the score editors offer: two buttons for a live match, one for any other, and
\* none on the read-only card of a cancelled one.
Offered(p, status, score) ==
    /\ p.status # "cancelled"
    /\ \/ status = "ongoing" /\ p.status = "ongoing"
       \/ status = "finished" /\ score \in Teams

SignsOff(d, status) == d = "admin" /\ status = "finished"

\* MatchResultService::apply; the admin signs off by saving a finished match, and the time
\* of a sign-off is always a new one.
Apply(h, d, status, score) ==
    LET row == Saving(match, [match EXCEPT !.status = status, !.score = score,
                                           !.confirmed = SignsOff(d, status)])
        signed == IF SignsOff(d, status) THEN {"confirmed"} ELSE {}
    IN Starts(h, match.confirmed, row, Differing(match, row) \cup signed, SignsOff(d, status))

SaveScore(h, d) ==
    \E status \in {"ongoing", "finished"}, score \in Scores :
       Offered(page[d], status, score) /\ Apply(h, d, status, score)

\* confirmResult: an unconfirmed winner is not called back from the next tie.
ConfirmResult(h) ==
    /\ "admin" \in Doors
    /\ page["admin"].status = "finished" /\ ~page["admin"].confirmed
    /\ match.status = "finished" /\ match.score # NoScore
    /\ Starts(h, FALSE, [match EXCEPT !.confirmed = TRUE], {"confirmed"}, TRUE)

Unconfirm(h) ==
    LET row == [match EXCEPT !.confirmed = FALSE] IN
    /\ "admin" \in Doors
    /\ page["admin"].status = "finished" /\ page["admin"].confirmed
    /\ Starts(h, FALSE, row, Differing(match, row), FALSE)

-----------------------------------------------------------------------------
(***************************************************************************)
(* Status: MatchStatusActions and updateStatus.                            *)
(***************************************************************************)
StatusButtons_Postponed(status) == {"scheduled", "ongoing", "postponed"} \ {status}
StatusButtons(status) ==
    CASE status = "scheduled" -> {"ongoing", "cancelled"}
      [] status = "ongoing"   -> {"scheduled", "cancelled"}
      [] status = "finished"  -> {"ongoing", "cancelled"}
      [] OTHER                -> {"scheduled"}

Unfinal_Kept(m) == m
Unfinal(m) == [m EXCEPT !.confirmed = FALSE]

SetStatus(h, d) ==
    \E status \in StatusButtons(page[d].status) :
       LET row == Saving(match, [Unfinal(match) EXCEPT !.status = status]) IN
       /\ status # match.status
       /\ Starts(h, match.confirmed, row, Differing(match, row), FALSE)

-----------------------------------------------------------------------------
(***************************************************************************)
(* The clock.                                                              *)
(***************************************************************************)
\* The buttons of MatchClockControls; which period it is, and so whether there is a
\* next one, is left open.
ClockButtons(p) ==
    CASE p.clock = "running"   -> {"pause", "advance", "reset"}
      [] p.clock = "paused"    -> {"start", "advance", "reset"}
      [] p.clock = "unstarted" -> {"start"}
      [] OTHER                 -> {}

\* Start and advance put a match that was not on into play.
Ticked(m, action) ==
    CASE action \in {"start", "advance"} -> [m EXCEPT !.clock = "running", !.status = "ongoing"]
      [] action = "pause" /\ m.clock = "running" -> [m EXCEPT !.clock = "paused"]
      [] OTHER -> m

\* Advance and reset write a new starting time to a running clock.
Restarted(m, action) ==
    IF action \in {"advance", "reset"} /\ m.clock = "running" THEN {"clock"} ELSE {}

Clocked(m) == m.status \notin Over

ApplyClock(h, d) ==
    \E action \in ClockButtons(page[d]) :
       LET row == Ticked(match, action) IN
       /\ Clocked(match)
       /\ Starts(h, FALSE, row, Differing(match, row) \cup Restarted(match, action), FALSE)

-----------------------------------------------------------------------------
(***************************************************************************)
(* Around it: the next tie is played by whoever sits in it, a door reads   *)
(* its matches again, and the board polls until it has seen the end.       *)
(***************************************************************************)
PlayNext ==
    /\ next.seat # Nobody
    /\ next' = [next EXCEPT !.played = next.seat]
    /\ UNCHANGED <<match, page, board, job, cut>>

Refetch(d) ==
    /\ page' = [page EXCEPT ![d] = Shown(d, match)]
    /\ UNCHANGED <<match, next, board, job, cut>>

FetchBoard == board' = OnBoard(match) /\ UNCHANGED <<match, next, page, job, cut>>

Polls == board.status \notin Over
Poll == Polls /\ FetchBoard

\* "Muat ulang skor", by whoever stands in front of it.
Reload == FetchBoard

Click(h) ==
    \/ \E d \in Doors : SaveScore(h, d) \/ ApplyClock(h, d)
    \/ ConfirmResult(h)
    \/ Unconfirm(h)
    \/ \E d \in Organizers : SetStatus(h, d)

Next ==
    \/ \E h \in Handlers : Click(h) \/ Finish(h)
    \/ PlayNext
    \/ \E d \in Doors : Refetch(d)
    \/ Poll
    \/ Reload

Spec == Init /\ [][Next]_vars

\* The board's timer runs as long as it is left on; a request ends one way or the other.
FairSpec == Spec /\ WF_vars(Poll) /\ \A h \in Handlers : WF_vars(Finish(h))

-----------------------------------------------------------------------------
Status == {"scheduled", "ongoing"} \cup Over
Clocks == {"unstarted", "paused", "running"}

Match == [status : Status, score : Scores, confirmed : BOOLEAN, clock : Clocks]
Slot == [seat : Teams \cup {Nobody}, played : Teams \cup {Nobody}]
Job == [do : {"idle", "withdraw", "save", "send"}, row : Match, dirty : SUBSET Columns,
        sends : BOOLEAN, out : BOOLEAN]

\* Type correctness of the tie, of what is shown of it and of the requests under way.
MDTypeOK ==
    /\ match \in Match /\ next \in Slot
    /\ page \in [Doors -> [status : Status, confirmed : BOOLEAN,
                           clock : Clocks \cup {"hidden"}]]
    /\ board \in [status : Status, clock : Clocks]
    /\ job \in [Handlers -> Job]
    /\ cut \in BOOLEAN

\* A confirmed result is a finished one, whatever dies between two commits, and its winner
\* is the team in the next tie, whatever door it was saved through and however it was taken
\* back before: unless a request is at the slot, or the last one that was died there.  Any
\* sign-off that is carried through puts that right again (MatchController::updateStatus
\* states the first half, MatchResultService::apply serves the second).
AtTheSlot(h) == job[h].do = "send" \/ job[h].out
SeatIsWinner ==
    match.confirmed =>
      /\ match.status = "finished"
      /\ next.seat = match.score \/ cut \/ \E h \in Handlers : AtTheSlot(h)

\* A tie that lost a team to a correction below has no score left over, from which a
\* winner could be sent on (ScheduleService::clearDownstream).
NoScoreInEmptyTie == next.seat = Nobody => next.played = Nobody

\* No board left on overnight keeps ticking after its match (GameMatch::booted).
BoardStopsTicking ==
    board.clock = "running" /\ match.status # "ongoing"
        ~> board.clock # "running" \/ match.status = "ongoing"
===============================================================================
