------------------------------ MODULE MatchProofs ------------------------------
(***************************************************************************)
(* The bracket and the clock of MatchDay: types with any number of         *)
(* requests under way, the rest with one at a time, which may die between  *)
(* any two of its commits.                                                 *)
(***************************************************************************)
EXTENDS MatchDay, TLAPS

\* No two requests overlap.
OneHandler == \A g, h \in Handlers : g = h

\* What a row may be: a finished tie has a winner, and the clock runs only while it is on.
Sound(m) ==
    /\ m.status = "finished" => m.score \in Teams
    /\ m.clock = "running" => m.status = "ongoing"

ClockFollowsStatus == match.clock = "running" => match.status = "ongoing"

\* What a request is about to write is sound too; it is a sign-off, or it confirms nothing.
Promises(j) ==
    LET m == Merged(match, j.row, j.dirty) IN
    Sound(m) /\ (j.sends => m.status = "finished") /\ (~j.sends => ~m.confirmed)

JobStands ==
    \A h \in Handlers :
       /\ job[h].do \in {"withdraw", "save"} => Promises(job[h])
       /\ job[h].do = "send" => match.status = "finished"
       /\ job[h].out => job[h].do \in {"save", "send"}

MInv ==
    /\ MDTypeOK
    /\ Sound(match)
    /\ JobStands
    /\ SeatIsWinner
    /\ NoScoreInEmptyTie

-----------------------------------------------------------------------------
\* A withdrawal leaves an empty slot and no score in it, a sign-off the winner.
LEMMA WithdrawEmpties ==
    ASSUME NEW n \in Slot, n.seat = Nobody => n.played = Nobody
    PROVE  Withdraw(n).seat = Nobody /\ Withdraw(n).played = Nobody
  BY DEF Withdraw, Slot

LEMMA SlotTyped ==
    ASSUME NEW n \in Slot, NEW score
    PROVE  Withdraw(n) \in Slot /\ Propagate(n, score) \in Slot
  BY DEF Withdraw, Propagate, WinnerOf, Slot

LEMMA PropagateSeats ==
    ASSUME NEW n \in Slot, NEW score \in Teams
    PROVE  /\ Propagate(n, score).seat = score
           /\ Propagate(n, score).seat # Nobody
  BY MatchAssumption DEF Propagate, WinnerOf, Teams, Slot

\* The hook changes nothing but the clock, and stops that when the match leaves play.
LEMMA SavingFolds ==
    ASSUME NEW seen \in Match, NEW m \in Match
    PROVE  /\ Saving(seen, m) \in Match
           /\ Saving(seen, m).status = m.status
           /\ Saving(seen, m).score = m.score
           /\ Saving(seen, m).confirmed = m.confirmed
           /\ m.clock = seen.clock /\ Sound(seen)
                => (Saving(seen, m).clock = "running" => m.status = "ongoing")
  BY DEF Saving, Match, Clocks, Sound

\* A save of everything that differs leaves the row the request wanted.
LEMMA MergedTyped ==
    ASSUME NEW m \in Match, NEW row \in Match, NEW dirty
    PROVE  Merged(m, row, dirty) \in Match
  BY DEF Merged, Match

LEMMA MergedIsRow ==
    ASSUME NEW m \in Match, NEW row \in Match, NEW dirty, Differing(m, row) \subseteq dirty
    PROVE  /\ Merged(m, row, dirty).status = row.status
           /\ Merged(m, row, dirty).score = row.score
           /\ Merged(m, row, dirty).confirmed = row.confirmed
           /\ Merged(m, row, dirty).clock = row.clock
<1>1. \A c \in Columns \ dirty : c \notin Differing(m, row)
  OBVIOUS
<1>2. /\ "status" \notin dirty => m.status = row.status
      /\ "score" \notin dirty => m.score = row.score
      /\ "confirmed" \notin dirty => m.confirmed = row.confirmed
      /\ "clock" \notin dirty => m.clock = row.clock
  BY <1>1 DEF Differing, Columns
<1> QED
  BY <1>2 DEF Merged

LEMMA DifferingTyped ==
    ASSUME NEW m, NEW row PROVE Differing(m, row) \subseteq Columns
  BY DEF Differing

-----------------------------------------------------------------------------
\* A request that starts is typed as what it wants is.
LEMMA StartsTyped ==
    ASSUME MDTypeOK, NEW h \in Handlers, NEW withdraws, NEW row \in Match,
           NEW dirty \in SUBSET Columns, NEW sends \in BOOLEAN,
           Starts(h, withdraws, row, dirty, sends)
    PROVE  MDTypeOK'
<1> DEFINE j == [do |-> IF withdraws THEN "withdraw" ELSE "save", row |-> row,
                 dirty |-> dirty, sends |-> sends, out |-> FALSE]
<1>1. j \in Job
  BY DEF Job
<1>2. job' = [job EXCEPT ![h] = j]
  BY DEF Starts, Goes
<1> QED
  BY <1>1, <1>2 DEF Starts, MDTypeOK

\* What the forms send: the row a score wants, and a status or a tick of the clock.
LEMMA ApplyRow ==
    ASSUME MDTypeOK, NEW h \in Handlers, NEW d, NEW status \in {"ongoing", "finished"},
           NEW score \in Scores, Apply(h, d, status, score)
    PROVE  \E row \in Match, dirty \in SUBSET Columns :
              /\ Differing(match, row) \subseteq dirty
              /\ Starts(h, match.confirmed, row, dirty, SignsOff(d, status))
              /\ row.status = status /\ row.score = score
              /\ row.confirmed = SignsOff(d, status)
              /\ Sound(match) => (row.clock = "running" => row.status = "ongoing")
<1> DEFINE m == [match EXCEPT !.status = status, !.score = score,
                              !.confirmed = SignsOff(d, status)]
           row == Saving(match, m)
           dirty == Differing(match, row)
                      \cup (IF SignsOff(d, status) THEN {"confirmed"} ELSE {})
<1>1. SignsOff(d, status) \in BOOLEAN
  BY DEF SignsOff
<1>2. match \in Match
  BY DEF MDTypeOK
<1>3. /\ m \in Match /\ m.status = status /\ m.score = score
      /\ m.confirmed = SignsOff(d, status) /\ m.clock = match.clock
  BY <1>1, <1>2 DEF Match, Status, Over
<1>4. /\ row \in Match /\ row.status = status /\ row.score = score
      /\ row.confirmed = SignsOff(d, status)
      /\ Sound(match) => (row.clock = "running" => row.status = "ongoing")
  <2> HIDE DEF m
  <2> QED
    BY <1>2, <1>3, SavingFolds
<1>5. dirty \in SUBSET Columns /\ Differing(match, row) \subseteq dirty
  BY DifferingTyped DEF Columns
<1>6. Starts(h, match.confirmed, row, dirty, SignsOff(d, status))
  BY DEF Apply
<1> HIDE DEF row, dirty
<1> QED
  BY <1>4, <1>5, <1>6

LEMMA StatusRow ==
    ASSUME MDTypeOK, NEW h \in Handlers, NEW d \in Doors, SetStatus(h, d)
    PROVE  \E row \in Match, dirty \in SUBSET Columns :
              /\ Differing(match, row) \subseteq dirty
              /\ Starts(h, match.confirmed, row, dirty, FALSE)
              /\ row.status # "finished" /\ ~row.confirmed
              /\ Sound(match) => (row.clock = "running" => row.status = "ongoing")
<1>1. PICK status \in StatusButtons(page[d].status) :
         Starts(h, match.confirmed, Saving(match, [Unfinal(match) EXCEPT !.status = status]),
                Differing(match, Saving(match, [Unfinal(match) EXCEPT !.status = status])),
                FALSE)
  BY DEF SetStatus
<1> DEFINE m == [Unfinal(match) EXCEPT !.status = status]
           row == Saving(match, m)
<1>2. status \in {"scheduled", "ongoing", "cancelled"}
  BY DEF StatusButtons
<1>3. match \in Match
  BY DEF MDTypeOK
<1>4. /\ m \in Match /\ m.status = status /\ m.confirmed = FALSE /\ m.clock = match.clock
  BY <1>2, <1>3 DEF Unfinal, Match, Status, Over
<1>5. /\ row \in Match /\ row.status = status /\ row.confirmed = FALSE
      /\ Sound(match) => (row.clock = "running" => row.status = "ongoing")
  <2> HIDE DEF m
  <2> QED
    BY <1>3, <1>4, SavingFolds
<1>6. Differing(match, row) \in SUBSET Columns
  BY DifferingTyped
<1>7. Starts(h, match.confirmed, row, Differing(match, row), FALSE)
  BY <1>1
<1> HIDE DEF row
<1> QED
  BY <1>2, <1>5, <1>6, <1>7

LEMMA ClockRow ==
    ASSUME MDTypeOK, NEW h \in Handlers, NEW d \in Doors, ApplyClock(h, d)
    PROVE  \E row \in Match, dirty \in SUBSET Columns :
              /\ Differing(match, row) \subseteq dirty
              /\ Starts(h, FALSE, row, dirty, FALSE)
              /\ row.status # "finished" /\ row.confirmed = match.confirmed
              /\ Sound(match) => (row.clock = "running" => row.status = "ongoing")
<1>1. PICK action \in ClockButtons(page[d]) :
         Starts(h, FALSE, Ticked(match, action),
                Differing(match, Ticked(match, action)) \cup Restarted(match, action), FALSE)
  BY DEF ApplyClock
<1>2. Clocked(match) /\ match \in Match
  BY DEF ApplyClock, MDTypeOK
<1> DEFINE row == Ticked(match, action)
           dirty == Differing(match, row) \cup Restarted(match, action)
<1>3. /\ row \in Match /\ row.confirmed = match.confirmed
      /\ row.status \in {match.status, "ongoing"}
      /\ Sound(match) => (row.clock = "running" => row.status = "ongoing")
  BY <1>2 DEF Ticked, Match, Clocks, Status, Sound
<1>4. row.status # "finished"
  BY <1>2, <1>3 DEF Clocked, Over
<1>5. dirty \in SUBSET Columns /\ Differing(match, row) \subseteq dirty
  BY DifferingTyped DEF Restarted, Columns
<1>6. Starts(h, FALSE, row, dirty, FALSE)
  BY <1>1
<1> HIDE DEF row, dirty
<1> QED
  BY <1>3, <1>4, <1>5, <1>6

LEMMA SignOffRow ==
    ASSUME MDTypeOK, NEW h \in Handlers, ConfirmResult(h) \/ Unconfirm(h)
    PROVE  \E row \in Match, dirty \in SUBSET Columns, sends \in BOOLEAN :
              /\ Differing(match, row) \subseteq dirty
              /\ Starts(h, FALSE, row, dirty, sends)
              /\ row.status = match.status /\ row.score = match.score
              /\ row.clock = match.clock /\ row.confirmed = sends
              /\ sends => match.status = "finished"
<1>1. match \in Match
  BY DEF MDTypeOK
<1>2. CASE ConfirmResult(h)
  <2> DEFINE row == [match EXCEPT !.confirmed = TRUE]
  <2>1. /\ row \in Match /\ row.status = match.status /\ row.score = match.score
        /\ row.clock = match.clock /\ row.confirmed = TRUE
    BY <1>1 DEF Match
  <2>2. Differing(match, row) \subseteq {"confirmed"} /\ {"confirmed"} \in SUBSET Columns
    BY <2>1 DEF Differing, Columns
  <2>3. Starts(h, FALSE, row, {"confirmed"}, TRUE) /\ match.status = "finished"
    BY <1>2 DEF ConfirmResult
  <2> HIDE DEF row
  <2> QED
    BY <2>1, <2>2, <2>3
<1>3. CASE Unconfirm(h)
  <2> DEFINE row == [match EXCEPT !.confirmed = FALSE]
  <2>1. /\ row \in Match /\ row.status = match.status /\ row.score = match.score
        /\ row.clock = match.clock /\ row.confirmed = FALSE
    BY <1>1 DEF Match
  <2>2. Starts(h, FALSE, row, Differing(match, row), FALSE)
    BY <1>3 DEF Unconfirm
  <2>3. Differing(match, row) \in SUBSET Columns
    BY DifferingTyped
  <2> HIDE DEF row
  <2> QED
    BY <2>1, <2>2, <2>3
<1> QED
  BY <1>2, <1>3

-----------------------------------------------------------------------------
LEMMA InitMInv == Init => MInv
<1> SUFFICES ASSUME Init PROVE MInv
  OBVIOUS
<1>1. match \in Match /\ next \in Slot /\ Sound(match) /\ ~match.confirmed
  BY DEF Init, Match, Slot, Sound, Scores, Status, Clocks, Over
<1>2. \A h \in Handlers : job[h] \in Job /\ job[h].do = "idle" /\ job[h].out = FALSE
  BY <1>1 DEF Init, Idle, Job
<1>3. MDTypeOK
  BY <1>1, <1>2 DEF Init, MDTypeOK, Shown, OnBoard, Match
<1>4. JobStands
  BY <1>2 DEF JobStands
<1>5. NoScoreInEmptyTie
  BY DEF Init, NoScoreInEmptyTie
<1> QED
  BY <1>1, <1>3, <1>4, <1>5 DEF MInv, SeatIsWinner

\* A request that starts has written nothing yet.
LEMMA StartsKeeps ==
    ASSUME OneHandler, MInv, NEW h \in Handlers, NEW withdraws, NEW row \in Match,
           NEW dirty \in SUBSET Columns, NEW sends \in BOOLEAN,
           Differing(match, row) \subseteq dirty,
           Starts(h, withdraws, row, dirty, sends),
           Sound(row), sends => row.status = "finished", ~sends => ~row.confirmed
    PROVE  MInv'
<1> DEFINE j == [do |-> IF withdraws THEN "withdraw" ELSE "save", row |-> row,
                 dirty |-> dirty, sends |-> sends, out |-> FALSE]
<1>1. MDTypeOK'
  BY StartsTyped DEF MInv
<1>2. /\ UNCHANGED <<match, next, cut>> /\ job[h].do = "idle"
      /\ job' = [job EXCEPT ![h] = j]
  BY DEF Starts, Goes, Free
<1>3. \A g \in Handlers : g = h
  BY DEF OneHandler
<1>4. job'[h] = j
  BY <1>2 DEF MInv, MDTypeOK
<1>5. /\ Sound(Merged(match, row, dirty))
      /\ Merged(match, row, dirty).status = row.status
      /\ Merged(match, row, dirty).confirmed = row.confirmed
  BY MergedIsRow DEF MInv, MDTypeOK, Sound
<1>6. Promises(j)
  BY <1>5 DEF Promises
<1>7. Promises(job[h])'
  BY <1>2, <1>4, <1>6 DEF Promises, Merged, Sound
<1>8. JobStands'
  BY <1>3, <1>4, <1>7 DEF JobStands
<1>9. \A g \in Handlers : ~AtTheSlot(g)
  BY <1>2, <1>3 DEF AtTheSlot, MInv, JobStands
<1>10. SeatIsWinner'
  BY <1>2, <1>9 DEF MInv, SeatIsWinner
<1> QED
  BY <1>1, <1>2, <1>8, <1>10 DEF MInv, Sound, NoScoreInEmptyTie

LEMMA ClickKeeps ==
    ASSUME OneHandler, MInv, NEW h \in Handlers, Click(h)
    PROVE  MInv'
<1>1. ASSUME NEW d \in Doors, SaveScore(h, d) PROVE MInv'
  <2>1. PICK status \in {"ongoing", "finished"}, score \in Scores :
           Offered(page[d], status, score) /\ Apply(h, d, status, score)
    BY <1>1 DEF SaveScore
  <2>2. PICK row \in Match, dirty \in SUBSET Columns :
              /\ Differing(match, row) \subseteq dirty
              /\ Starts(h, match.confirmed, row, dirty, SignsOff(d, status))
              /\ row.status = status /\ row.score = score
              /\ row.confirmed = SignsOff(d, status)
              /\ Sound(match) => (row.clock = "running" => row.status = "ongoing")
    BY <2>1, ApplyRow DEF MInv
  <2>3. /\ status = "finished" => score \in Teams
        /\ SignsOff(d, status) => status = "finished"
        /\ SignsOff(d, status) \in BOOLEAN
    BY <2>1 DEF Offered, SignsOff
  <2>4. Sound(row)
    BY <2>2, <2>3 DEF Sound, MInv
  <2> QED
    BY <2>2, <2>3, <2>4, StartsKeeps
<1>2. ASSUME NEW d \in Doors, SetStatus(h, d) PROVE MInv'
  <2>1. PICK row \in Match, dirty \in SUBSET Columns :
              /\ Differing(match, row) \subseteq dirty
              /\ Starts(h, match.confirmed, row, dirty, FALSE)
              /\ row.status # "finished" /\ ~row.confirmed
              /\ Sound(match) => (row.clock = "running" => row.status = "ongoing")
    BY <1>2, StatusRow DEF MInv
  <2>2. Sound(row)
    BY <2>1 DEF Sound, MInv
  <2> QED
    BY <2>1, <2>2, StartsKeeps
<1>3. ASSUME NEW d \in Doors, ApplyClock(h, d) PROVE MInv'
  <2>1. PICK row \in Match, dirty \in SUBSET Columns :
              /\ Differing(match, row) \subseteq dirty
              /\ Starts(h, FALSE, row, dirty, FALSE)
              /\ row.status # "finished" /\ row.confirmed = match.confirmed
              /\ Sound(match) => (row.clock = "running" => row.status = "ongoing")
    BY <1>3, ClockRow DEF MInv
  <2>2. ~match.confirmed
    BY <1>3 DEF ApplyClock, Clocked, Over, MInv, SeatIsWinner
  <2>3. Sound(row) /\ ~row.confirmed
    BY <2>1, <2>2 DEF Sound, MInv
  <2> QED
    BY <2>1, <2>3, StartsKeeps
<1>4. CASE ConfirmResult(h) \/ Unconfirm(h)
  <2>1. PICK row \in Match, dirty \in SUBSET Columns, sends \in BOOLEAN :
              /\ Differing(match, row) \subseteq dirty
              /\ Starts(h, FALSE, row, dirty, sends)
              /\ row.status = match.status /\ row.score = match.score
              /\ row.clock = match.clock /\ row.confirmed = sends
              /\ sends => match.status = "finished"
    BY <1>4, SignOffRow DEF MInv
  <2>2. Sound(row)
    BY <2>1 DEF Sound, MInv
  <2> QED
    BY <2>1, <2>2, StartsKeeps
<1> QED
  BY <1>1, <1>2, <1>3, <1>4 DEF Click, Organizers

-----------------------------------------------------------------------------
\* The commits of a request, one after the other, and its death between them.
LEMMA TakeOutKeeps ==
    ASSUME OneHandler, MInv, NEW h \in Handlers, TakeOut(h)
    PROVE  MInv'
<1>1. /\ UNCHANGED <<match, page, board, cut>> /\ next' = Withdraw(next)
      /\ job[h].do = "withdraw"
      /\ job' = [job EXCEPT ![h] = [job[h] EXCEPT !.do = "save", !.out = TRUE]]
  BY DEF TakeOut, Goes
<1>2. PICK j \in Job : j = job[h]
  BY DEF MInv, MDTypeOK
<1>3. /\ job'[h] \in Job /\ job'[h].do = "save" /\ job'[h].out = TRUE
      /\ job'[h].row = j.row /\ job'[h].dirty = j.dirty /\ job'[h].sends = j.sends
  BY <1>1, <1>2 DEF MInv, MDTypeOK, Job
<1>4. \A g \in Handlers : g = h
  BY DEF OneHandler
<1>5. /\ next' \in Slot /\ next'.seat = Nobody /\ next'.played = Nobody
  BY <1>1, SlotTyped, WithdrawEmpties DEF MInv, MDTypeOK, NoScoreInEmptyTie
<1>6. MDTypeOK'
  BY <1>1, <1>3, <1>5 DEF MInv, MDTypeOK
<1>7. Promises(job[h])
  BY <1>1 DEF MInv, JobStands
<1>8. Promises(job[h])'
  BY <1>1, <1>2, <1>3, <1>7 DEF Promises, Merged, Sound
<1>9. JobStands'
  BY <1>3, <1>4, <1>8 DEF JobStands
<1>10. SeatIsWinner'
  BY <1>1, <1>3 DEF MInv, SeatIsWinner, AtTheSlot
<1> QED
  BY <1>1, <1>5, <1>6, <1>9, <1>10 DEF MInv, Sound, NoScoreInEmptyTie

LEMMA SaveRowTyped ==
    ASSUME MDTypeOK, NEW h \in Handlers, SaveRow(h)
    PROVE  MDTypeOK'
<1>1. PICK j \in Job : j = job[h]
  BY DEF MDTypeOK
<1>2. match' = Merged(match, j.row, j.dirty) /\ match' \in Match
  BY <1>1, MergedTyped DEF SaveRow, MDTypeOK, Job
<1>3. PICK k \in Job : job' = [job EXCEPT ![h] = k]
  <2>1. CASE j.sends
    <3>1. [j EXCEPT !.do = "send"] \in Job
      BY DEF Job
    <3> QED
      BY <1>1, <2>1, <3>1 DEF SaveRow, Goes
  <2>2. CASE ~j.sends
    <3>1. Idle(match') \in Job
      BY <1>2 DEF Idle, Job
    <3> QED
      BY <1>1, <2>2, <3>1 DEF SaveRow, Ends, Goes
  <2> QED
    BY <2>1, <2>2
<1> QED
  BY <1>2, <1>3 DEF SaveRow, MDTypeOK

LEMMA SaveRowKeeps ==
    ASSUME OneHandler, MInv, NEW h \in Handlers, SaveRow(h)
    PROVE  MInv'
<1>1. PICK j \in Job : j = job[h]
  BY DEF MInv, MDTypeOK
<1>2. /\ UNCHANGED <<next, cut>> /\ match' = Merged(match, j.row, j.dirty)
      /\ j.do = "save"
  BY <1>1 DEF SaveRow
<1>3. /\ Sound(match') /\ (j.sends => match'.status = "finished")
      /\ ~j.sends => ~match'.confirmed
  BY <1>1, <1>2 DEF MInv, JobStands, Promises
<1>4. \A g \in Handlers : g = h
  BY DEF OneHandler
<1>5. MDTypeOK'
  BY SaveRowTyped DEF MInv
<1>6. CASE j.sends
  <2>1. job'[h].do = "send"
    BY <1>1, <1>6 DEF SaveRow, Goes, MInv, MDTypeOK, Job
  <2>2. JobStands'
    BY <1>3, <1>4, <1>6, <2>1 DEF JobStands
  <2>3. SeatIsWinner'
    BY <1>3, <1>6, <2>1 DEF SeatIsWinner, AtTheSlot
  <2> QED
    BY <1>2, <1>3, <1>5, <2>2, <2>3 DEF MInv, Sound, NoScoreInEmptyTie
<1>7. CASE ~j.sends
  <2>1. job'[h].do = "idle" /\ job'[h].out = FALSE
    BY <1>1, <1>7 DEF SaveRow, Ends, Goes, Idle, MInv, MDTypeOK
  <2>2. JobStands'
    BY <1>4, <2>1 DEF JobStands
  <2> QED
    BY <1>2, <1>3, <1>5, <1>7, <2>2 DEF MInv, Sound, SeatIsWinner, NoScoreInEmptyTie
<1> QED
  BY <1>6, <1>7

LEMMA EndsTyped ==
    ASSUME MDTypeOK, NEW h \in Handlers, Ends(h), match' = match
    PROVE  /\ job' \in [Handlers -> Job]
           /\ job'[h].do = "idle" /\ job'[h].out = FALSE
<1>1. Idle(match') \in Job /\ Idle(match').do = "idle" /\ Idle(match').out = FALSE
  BY DEF Idle, Job, MDTypeOK
<1> QED
  BY <1>1 DEF Ends, Goes, MDTypeOK

LEMMA SendOnTyped ==
    ASSUME MDTypeOK, NEW h \in Handlers, SendOn(h)
    PROVE  MDTypeOK'
  BY EndsTyped, SlotTyped DEF SendOn, MDTypeOK

LEMMA SendOnKeeps ==
    ASSUME OneHandler, MInv, NEW h \in Handlers, SendOn(h)
    PROVE  MInv'
<1>1. MDTypeOK'
  BY SendOnTyped DEF MInv
<1>2. match.status = "finished" /\ match.score \in Teams
  BY DEF SendOn, MInv, JobStands, Sound
<1>3. match' = match /\ next' = Propagate(next, match.score)
  BY DEF SendOn
<1>4. next'.seat = match.score /\ next'.seat # Nobody
  BY <1>2, <1>3, PropagateSeats DEF MInv, MDTypeOK
<1>5. job'[h].do = "idle" /\ job'[h].out = FALSE
  BY <1>3, EndsTyped DEF SendOn, MInv
<1>6. JobStands'
  BY <1>5 DEF JobStands, OneHandler
<1> QED
  BY <1>1, <1>2, <1>3, <1>4, <1>6 DEF MInv, Sound, SeatIsWinner, NoScoreInEmptyTie

LEMMA DiesKeeps ==
    ASSUME OneHandler, MInv, NEW h \in Handlers, Dies(h)
    PROVE  MInv'
<1>1. UNCHANGED <<match, next, page, board>> /\ Ends(h)
  BY DEF Dies
<1>2. cut' = (cut \/ AtTheSlot(h)) /\ cut' \in BOOLEAN
  BY DEF Dies, AtTheSlot, MInv, MDTypeOK
<1>3. /\ job' \in [Handlers -> Job]
      /\ job'[h].do = "idle" /\ job'[h].out = FALSE
  BY <1>1, EndsTyped DEF MInv
<1>4. JobStands'
  BY <1>3 DEF JobStands, OneHandler
<1>5. SeatIsWinner'
  BY <1>1, <1>2 DEF MInv, SeatIsWinner, OneHandler
<1> QED
  BY <1>1, <1>2, <1>3, <1>4, <1>5 DEF MInv, MDTypeOK, Sound, NoScoreInEmptyTie

-----------------------------------------------------------------------------
\* The game of the next tie, and what only reads.
LEMMA AroundTyped ==
    ASSUME MDTypeOK, PlayNext \/ Poll \/ Reload \/ \E d \in Doors : Refetch(d)
    PROVE  MDTypeOK'
<1>1. CASE PlayNext
  BY <1>1 DEF PlayNext, MDTypeOK, Slot
<1>2. CASE FetchBoard
  BY <1>2 DEF FetchBoard, OnBoard, MDTypeOK, Match
<1>3. ASSUME NEW d \in Doors, Refetch(d) PROVE MDTypeOK'
  <2>1. Shown(d, match) \in [status : Status, confirmed : BOOLEAN,
                             clock : Clocks \cup {"hidden"}]
    BY DEF Shown, MDTypeOK, Match
  <2> QED
    BY <1>3, <2>1 DEF Refetch, MDTypeOK
<1> QED
  BY <1>1, <1>2, <1>3 DEF Poll, Reload

\* No request moves, and the slot keeps its team.
LEMMA SameRowKeeps ==
    ASSUME MInv, MDTypeOK', UNCHANGED <<match, job, cut>>, next'.seat = next.seat,
           next'.seat = Nobody => next'.played = Nobody
    PROVE  MInv'
<1>1. JobStands'
  BY DEF MInv, JobStands, Promises, Merged, Sound
<1>2. SeatIsWinner'
  BY DEF MInv, SeatIsWinner, AtTheSlot
<1> QED
  BY <1>1, <1>2 DEF MInv, Sound, NoScoreInEmptyTie

LEMMA AroundKeeps ==
    ASSUME MInv, PlayNext \/ Poll \/ Reload \/ \E d \in Doors : Refetch(d)
    PROVE  MInv'
<1>1. MDTypeOK'
  BY AroundTyped DEF MInv
<1>2. /\ UNCHANGED <<match, job, cut>> /\ next'.seat = next.seat
      /\ next'.seat = Nobody => next'.played = Nobody
  <2>1. CASE PlayNext
    BY <2>1 DEF PlayNext, MInv, MDTypeOK, Slot
  <2>2. CASE Poll \/ Reload \/ \E d \in Doors : Refetch(d)
    BY <2>2 DEF Poll, Reload, FetchBoard, Refetch, MInv, NoScoreInEmptyTie
  <2> QED
    BY <2>1, <2>2
<1> QED
  BY <1>1, <1>2, SameRowKeeps

LEMMA NextMInv ==
    ASSUME OneHandler, MInv, [Next]_vars
    PROVE  MInv'
<1>1. CASE UNCHANGED vars
  <2>1. MDTypeOK'
    BY <1>1 DEF vars, MInv, MDTypeOK
  <2> QED
    BY <1>1, <2>1, SameRowKeeps DEF vars, MInv, NoScoreInEmptyTie
<1>2. ASSUME NEW h \in Handlers, Finish(h) PROVE MInv'
  BY <1>2, TakeOutKeeps, SaveRowKeeps, SendOnKeeps, DiesKeeps DEF Finish
<1> QED
  BY <1>1, <1>2, ClickKeeps, AroundKeeps DEF Next

\* With one request at a time, the strengthened invariant holds of every tie.
LEMMA MatchInvariant == OneHandler /\ Spec => []MInv
<1>1. OneHandler /\ MInv /\ [Next]_vars => MInv'
  BY NextMInv
<1>2. CASE OneHandler
  <2>1. MInv /\ [Next]_vars => MInv'
    BY <1>1, <1>2
  <2> QED
    BY InitMInv, <2>1, PTL DEF Spec
<1> QED
  BY <1>2

\* A confirmed result is a finished one, at whatever commit a worker dies, and its winner
\* is the team in the next tie but for a request at the slot or one that died there.
THEOREM SeatIsWinnerHolds == OneHandler /\ Spec => []SeatIsWinner
<1>1. MInv => SeatIsWinner
  BY DEF MInv
<1> QED
  BY <1>1, MatchInvariant, PTL

\* A tie that lost a team to a correction below has lost its score with it.
THEOREM NoScoreInEmptyTieHolds == OneHandler /\ Spec => []NoScoreInEmptyTie
<1>1. MInv => NoScoreInEmptyTie
  BY DEF MInv
<1> QED
  BY <1>1, MatchInvariant, PTL

\* The clock runs only while the match is on: the finite half of BoardStopsTicking.
THEOREM ClockFollowsStatusHolds == OneHandler /\ Spec => []ClockFollowsStatus
<1>1. MInv => ClockFollowsStatus
  BY DEF MInv, Sound, ClockFollowsStatus
<1> QED
  BY <1>1, MatchInvariant, PTL

-----------------------------------------------------------------------------
LEMMA ClickTyped ==
    ASSUME MDTypeOK, NEW h \in Handlers, Click(h)
    PROVE  MDTypeOK'
<1>1. ASSUME NEW d \in Doors, SaveScore(h, d) PROVE MDTypeOK'
  <2>1. PICK status \in {"ongoing", "finished"}, score \in Scores : Apply(h, d, status, score)
    BY <1>1 DEF SaveScore
  <2>2. PICK row \in Match, dirty \in SUBSET Columns :
           Starts(h, match.confirmed, row, dirty, SignsOff(d, status))
    BY <2>1, ApplyRow
  <2>3. SignsOff(d, status) \in BOOLEAN
    BY DEF SignsOff
  <2> QED
    BY <2>2, <2>3, StartsTyped
<1>2. ASSUME NEW d \in Doors, SetStatus(h, d) PROVE MDTypeOK'
  <2>1. PICK row \in Match, dirty \in SUBSET Columns :
           Starts(h, match.confirmed, row, dirty, FALSE)
    BY <1>2, StatusRow
  <2> QED
    BY <2>1, StartsTyped
<1>3. ASSUME NEW d \in Doors, ApplyClock(h, d) PROVE MDTypeOK'
  <2>1. PICK row \in Match, dirty \in SUBSET Columns : Starts(h, FALSE, row, dirty, FALSE)
    BY <1>3, ClockRow
  <2> QED
    BY <2>1, StartsTyped
<1>4. CASE ConfirmResult(h) \/ Unconfirm(h)
  <2>1. PICK row \in Match, dirty \in SUBSET Columns, sends \in BOOLEAN :
           Starts(h, FALSE, row, dirty, sends)
    BY <1>4, SignOffRow
  <2> QED
    BY <2>1, StartsTyped
<1> QED
  BY <1>1, <1>2, <1>3, <1>4 DEF Click, Organizers

LEMMA FinishTyped ==
    ASSUME MDTypeOK, NEW h \in Handlers, Finish(h)
    PROVE  MDTypeOK'
<1>1. CASE TakeOut(h)
  <2>1. [job[h] EXCEPT !.do = "save", !.out = TRUE] \in Job
    BY DEF MDTypeOK, Job
  <2> QED
    BY <1>1, <2>1, SlotTyped DEF TakeOut, Goes, MDTypeOK
<1>2. CASE Dies(h)
  <2>1. job' \in [Handlers -> Job]
    BY <1>2, EndsTyped DEF Dies
  <2>2. cut' \in BOOLEAN
    BY <1>2 DEF Dies, MDTypeOK
  <2> QED
    BY <1>2, <2>1, <2>2 DEF Dies, MDTypeOK
<1> QED
  BY <1>1, <1>2, SaveRowTyped, SendOnTyped DEF Finish

\* The tie, what is shown of it and what is about to be written are well-typed, however
\* many requests overlap.
THEOREM MatchTypeCorrect == Spec => []MDTypeOK
<1>1. MDTypeOK /\ [Next]_vars => MDTypeOK'
  <2> SUFFICES ASSUME MDTypeOK, [Next]_vars PROVE MDTypeOK'
    OBVIOUS
  <2>1. CASE UNCHANGED vars
    BY <2>1 DEF vars, MDTypeOK
  <2> QED
    BY <2>1, ClickTyped, FinishTyped, AroundTyped DEF Next
<1>2. Init => MDTypeOK
  BY InitMInv DEF MInv
<1> QED
  BY <1>1, <1>2, PTL DEF Spec
=============================================================================
