------------------------------ MODULE Dashboard ------------------------------
(***************************************************************************)
(* The broker's own pane (dashboard.py BrokerDashboard, and broker.py's    *)
(* refreshes and presentation ticker).  Handlers, the ticker and the       *)
(* resize signal run on one event loop; a handler refreshes the pane from  *)
(* the database at the end of what it does, some of it after an await.     *)
(*                                                                         *)
(* What the metadata look like is a member of Looks; a frame is a look     *)
(* laid out for a size, with the turn of the spinner while it is animated. *)
(***************************************************************************)
EXTENDS Naturals, Sequences, SequencesExt

CONSTANTS Handlers,     \* handlers that may be under way
          Looks,        \* what the database's metadata may show
          Animated,     \* those with loading or active work
          Interactive,  \* the pane is a terminal
          Turns,        \* presentation frames (12)
          MaxWrites,    \* changes of the metadata
          MaxFaults,    \* reads, writes of the pane and answers that fail
          MaxResizes    \* changes of the pane's size

None == "none"
Sizes == {"full", "compact"}

\* Assumed of the constants by every module that instantiates this one.  With a
\* single turn a frame that failed would look like the one before it.
DashboardAssumption ==
  /\ Animated \subseteq Looks /\ None \notin Looks
  /\ Interactive \in BOOLEAN
  /\ Turns \in Nat /\ Turns > 1
  /\ {MaxWrites, MaxFaults, MaxResizes} \subseteq Nat

VARIABLES
  store,    \* what the database shows
  handler,  \* each handler: "rest", or what it has done
  pane,     \* BrokerDashboard's members
  screen,   \* what the pane shows, or the last line it printed
  size,     \* the terminal's size
  signals,  \* resize signals the loop has not handled
  ticker,   \* the presentation ticker: "on", "dead" or "off"
  broker,   \* "up", "stopping", "ended" or "failed"
  left,     \* how many writes, faults and resizes may still happen
  tried,    \* history: how the last refresh went
  missed,   \* history: a handler ended without its refresh since the last one
  printed   \* history: the kinds of the lines printed (not a terminal)

vars == <<store, handler, pane, screen, size, signals, ticker, broker, left,
          tried, missed, printed>>

\* What the pane can show: a frame, a line of an update, the notice, or
\* something torn by a write that failed.
Kinds == {"nothing", "frame", "update", "unavailable", "torn"}
Plain(kind, look) == [kind |-> kind, look |-> look, size |-> "full", turn |-> 0]
Nothing == Plain("nothing", None)
Unavailable == Plain("unavailable", None)
Image == [kind : Kinds, look : Looks \cup {None}, size : Sizes, turn : 0 .. Turns - 1]

TypeOK ==
  /\ store \in Looks
  /\ handler \in [Handlers -> {"rest", "working", "answering"}]
  /\ pane \in [snapshot : Looks \cup {None}, last : Image,
               summary : Looks \cup {None}, turn : 0 .. Turns - 1,
               unavailable : BOOLEAN]
  /\ screen \in Image
  /\ size \in Sizes /\ signals \in 0 .. MaxResizes
  /\ ticker \in {"on", "dead", "off"}
  /\ broker \in {"up", "stopping", "ended", "failed"}
  /\ left \in [writes : 0 .. MaxWrites, faults : 0 .. MaxFaults, resizes : 0 .. MaxResizes]
  /\ tried \in {"ok", "not read", "not written"}
  /\ missed \in BOOLEAN
  /\ printed \in Seq({"frame", "update", "unavailable", "torn"})

Spent(what) == [left EXCEPT ![what] = @ - 1]

-----------------------------------------------------------------------------
(* BrokerDashboard                                                         *)

Laid(look, turn) ==
  [kind |-> "frame", look |-> look, size |-> size,
   turn |-> IF look \in Animated THEN turn ELSE 0]

\* refresh() on a terminal: a frame equal to the last one is not written.
\* The result: the members, and what is written (Nothing: no write).
Painted(p, look) ==
  LET q == [p EXCEPT !.unavailable = FALSE, !.snapshot = look]
      f == Laid(look, p.turn)
  IN IF f = p.last THEN [pane |-> q, out |-> Nothing]
                   ELSE [pane |-> [q EXCEPT !.last = f], out |-> f]

\* refresh() elsewhere: one frame, then a line whenever the summary changes.
\* Broken: the summary is kept from the first frame on (PaneIsCurrent).
SummarizedOnce(p, look) ==
  LET q == [p EXCEPT !.unavailable = FALSE, !.snapshot = look,
                     !.last = Laid(look, p.turn),
                     !.summary = IF @ = None THEN look ELSE @]
  IN [pane |-> q,
      out  |-> IF p.last = Nothing THEN Laid(look, p.turn)
               ELSE IF p.summary # look THEN Plain("update", look) ELSE Nothing]
\* Broken: a changed frame is printed whole (FramesAreRare).
SummarizedWhole(p, look) ==
  LET q == [p EXCEPT !.unavailable = FALSE, !.snapshot = look,
                     !.last = Laid(look, p.turn), !.summary = look]
  IN [pane |-> q,
      out  |-> IF p.last # q.last THEN q.last ELSE Nothing]
Summarized(p, look) ==
  LET q == [p EXCEPT !.unavailable = FALSE, !.snapshot = look,
                     !.last = Laid(look, p.turn), !.summary = look]
  IN [pane |-> q,
      out  |-> IF p.last = Nothing THEN Laid(look, p.turn)
               ELSE IF p.summary # look THEN Plain("update", look) ELSE Nothing]

Refreshed(p, look) == IF Interactive THEN Painted(p, look) ELSE Summarized(p, look)

\* A write that fails leaves last and summary as they were on a terminal;
\* elsewhere last is set before the write.
\* Broken: the terminal's frame counts as shown before it is written (PaneIsCurrent).
UnwrittenEarly(p, look) ==
  [p EXCEPT !.unavailable = FALSE, !.snapshot = look, !.last = Laid(look, p.turn)]
Unwritten(p, look) ==
  [p EXCEPT !.unavailable = FALSE, !.snapshot = look,
            !.last = IF Interactive THEN @ ELSE Laid(look, p.turn)]

\* render_unavailable(): once, and the next refresh must paint.
\* Broken: the frame below the notice counts as shown (LastIsShown).
NoticedOver(p) == [p EXCEPT !.unavailable = TRUE]
Noticed(p) == [p EXCEPT !.unavailable = TRUE, !.last = Nothing, !.summary = None]

Show(out) ==
  IF out = Nothing THEN UNCHANGED <<screen, printed>>
  ELSE /\ screen' = out
       /\ printed' = IF Interactive THEN printed ELSE Append(printed, out.kind)

\* What a failed write leaves on the pane is not known.
Tear ==
  /\ screen' = Plain("torn", None)
  /\ printed' = IF Interactive THEN printed ELSE Append(printed, "torn")

\* The notice, which may fail in its turn and is not repeated then.
ShowNotice(p) ==
  /\ pane' = IF p.unavailable THEN p ELSE Noticed(p)
  /\ \/ Show(IF p.unavailable THEN Nothing ELSE Unavailable) /\ left' = Spent("faults")
     \/ /\ ~p.unavailable /\ left.faults > 1
        /\ Tear /\ left' = [left EXCEPT !.faults = @ - 2]

\* Broker.refresh_dashboard: whatever fails stays here.
Refresh ==
  IF broker \in {"ended", "failed"}
  THEN UNCHANGED <<pane, screen, left, tried, missed, printed>>
  ELSE /\ missed' = FALSE
       /\ \/ LET r == Refreshed(pane, store)
             IN pane' = r.pane /\ Show(r.out) /\ tried' = "ok" /\ UNCHANGED left
          \/ left.faults > 0 /\ tried' = "not read" /\ ShowNotice(pane)
          \/ /\ left.faults > 0 /\ tried' = "not written"
             /\ Refreshed(pane, store).out # Nothing
             /\ ShowNotice(Unwritten(pane, store))

-----------------------------------------------------------------------------
Init ==
  /\ store \in Looks
  /\ handler = [h \in Handlers |-> "rest"]
  /\ pane = [snapshot |-> None, last |-> Nothing, summary |-> None, turn |-> 0,
             unavailable |-> FALSE]
  /\ screen = Nothing /\ size = "full" /\ signals = 0
  /\ ticker = IF Interactive THEN "on" ELSE "off"
  /\ broker = "up"
  /\ left = [writes |-> MaxWrites, faults |-> MaxFaults, resizes |-> MaxResizes]
  /\ tried = "ok" /\ missed = TRUE /\ printed = <<>>

\* _run: the pane is filled once the database is prepared.
First ==
  /\ pane.snapshot = None /\ broker = "up"
  /\ Refresh
  /\ UNCHANGED <<store, handler, size, signals, ticker, broker>>

\* A handler commits a change of the metadata ...
Commit(h) ==
  /\ broker = "up" /\ handler[h] = "rest" /\ left.writes > 0
  /\ \E look \in Looks : store' = look
  /\ \E to \in {"working", "answering"} : handler' = [handler EXCEPT ![h] = to]
  /\ left' = Spent("writes")
  /\ UNCHANGED <<pane, screen, size, signals, ticker, broker, tried, missed, printed>>

\* ... and refreshes the pane when it is done, a worker's handler also when
\* it fails (handle_message, handle_client).
Finish(h) ==
  /\ broker \in {"up", "stopping"} /\ handler[h] = "working"
  /\ handler' = [handler EXCEPT ![h] = "rest"]
  /\ Refresh
  /\ UNCHANGED <<store, size, signals, ticker, broker>>

\* handle_control answers the operator first, outside any try.
Answered(h) ==
  /\ broker \in {"up", "stopping"} /\ handler[h] = "answering"
  /\ handler' = [handler EXCEPT ![h] = "rest"]
  /\ Refresh
  /\ UNCHANGED <<store, size, signals, ticker, broker>>

OperatorGone(h) ==
  /\ broker \in {"up", "stopping"} /\ handler[h] = "answering" /\ left.faults > 0
  /\ handler' = [handler EXCEPT ![h] = "rest"]
  /\ left' = Spent("faults") /\ missed' = TRUE
  /\ UNCHANGED <<store, pane, screen, size, signals, ticker, broker, tried, printed>>

Resize ==
  /\ left.resizes > 0 /\ left' = Spent("resizes")
  /\ \E s \in Sizes \ {size} : size' = s
  /\ signals' = signals + 1
  /\ UNCHANGED <<store, handler, pane, screen, ticker, broker, tried, missed, printed>>

\* SIGWINCH's callback; the signals that came before it count once.
Resized ==
  /\ signals > 0 /\ broker \in {"up", "stopping"}
  /\ signals' = 0
  /\ Refresh
  /\ UNCHANGED <<store, handler, size, ticker, broker>>

\* presentation_tick: the cached metadata once more.  An error ends the ticker.
\* Broken: the spinner's turn is not bounded (TypeOK).
TickOn ==
  /\ ticker = "on" /\ broker \in {"up", "stopping"}
  /\ pane.snapshot \in Animated
  /\ LET r == Refreshed([pane EXCEPT !.turn = @ + 1], pane.snapshot)
     IN pane' = r.pane /\ Show(r.out)
  /\ UNCHANGED <<store, handler, size, signals, ticker, broker, left, tried, missed>>
Tick ==
  /\ ticker = "on" /\ broker \in {"up", "stopping"}
  /\ pane.snapshot \in Animated
  /\ LET p == [pane EXCEPT !.turn = (@ + 1) % Turns]
         r == Refreshed(p, p.snapshot)
     IN \/ pane' = r.pane /\ Show(r.out) /\ UNCHANGED <<ticker, left, tried>>
        \/ /\ left.faults > 0 /\ r.out # Nothing
           /\ pane' = Unwritten(p, p.snapshot) /\ Tear
           /\ ticker' = "dead" /\ left' = Spent("faults") /\ tried' = "not written"
  /\ UNCHANGED <<store, handler, size, signals, broker, missed>>

Stop ==
  /\ broker = "up" /\ broker' = "stopping"
  /\ UNCHANGED <<store, handler, pane, screen, size, signals, ticker, left,
                 tried, missed, printed>>

\* run()'s finally: the ticker is cancelled and awaited, and an error it had
\* is raised here; close() writes to a terminal once more.
End ==
  /\ broker = "stopping"
  /\ ticker' = "off"
  /\ \/ broker' = (IF ticker = "dead" THEN "failed" ELSE "ended") /\ UNCHANGED left
     \/ Interactive /\ left.faults > 0 /\ broker' = "failed" /\ left' = Spent("faults")
  /\ UNCHANGED <<store, handler, pane, screen, size, signals, tried, missed, printed>>

Next ==
  \/ First \/ Resize \/ Resized \/ Tick \/ Stop \/ End
  \/ \E h \in Handlers : Commit(h) \/ Finish(h) \/ Answered(h) \/ OperatorGone(h)

Spec == Init /\ [][Next]_vars

-----------------------------------------------------------------------------
Quiet == (\A h \in Handlers : handler[h] = "rest") /\ signals = 0

Shows(look) ==
  /\ screen.kind \in {"frame", "update"} /\ screen.look = look
  /\ Interactive => screen.size = size

\* When nothing is under way and the last refresh got through, the pane shows
\* the database as it is, laid out for the size it has: no suppressed frame
\* and no tick leaves an older or a torn one (dashboard.py:1194-1245).
PaneIsCurrent ==
  broker = "up" /\ Quiet /\ ~missed /\ tried = "ok" => Shows(store)

\* The frame that the next one is compared with is the one on the screen, or
\* what is there was torn by a write that failed (dashboard.py:1211-1222, 1268).
LastIsShown ==
  Interactive /\ pane.last # Nothing => screen = pane.last \/ screen.kind = "torn"

\* A pane that is no terminal repeats a whole frame only after a notice, or
\* after a line that failed (dashboard-design.md:98).
FramesAreRare ==
  \A i \in 1 .. Len(printed) :
    printed[i] = "frame" /\ i > 1 => printed[i - 1] # "frame" /\ printed[i - 1] # "update"

\* Metadata refreshes are requested by state transitions: nothing is left
\* unseen once the handlers rest (dashboard-design.md:5).
TransitionsAreSeen == broker = "up" /\ Quiet => ~missed \/ pane.snapshot = None

\* The unavailable view replaces the cached frame until a read succeeds
\* (dashboard.py:1266).
NoticeStays ==
  broker = "up" /\ tried = "not read" => screen.kind \in {"unavailable", "torn"}

\* A terminal failure never becomes a failure of the broker (broker.py:248).
TerminalIsHarmless == broker # "failed"
=============================================================================
